---- MODULE Spec2Model ----
(***************************************************************************)
(* A state-machine model of the Solar Panel Viewer (src/Raycasting/Dragging *)
(* and src/Solar Panel Viewer/script.js): the selection / drag / rotation   *)
(* handlers, the pivot-offset transform, the draggable-object classifier    *)
(* and the shadow-coverage sampler.                                         *)
(*                                                                          *)
(* Geometry is exact.  A real number is a pair <<a, b>> standing for        *)
(* (a + b * sqrt 2) / Scale, a vector a pair of such numbers; the model is  *)
(* the plane of two world axes (axes 1 and 2) and every rotation is about   *)
(* the third by a multiple of 45 degrees.  An orientation (a quaternion of  *)
(* the source) is the integer k in 0 .. 7 standing for the rotation by      *)
(* k * 45 degrees.  The drag plane is normal to one of the three axes: to   *)
(* axis 3 it is the plane of the model, to axis 1 or 2 a line in it.        *)
(***************************************************************************)
EXTENDS Integers, Sequences, FiniteSets, TLC

\* ------------------------------------------------------------- bounds
\* Binary digits kept behind the point: every vertex, input point and
\* derived offset or position is a multiple of 1 / 2^ScaleBits.
ScaleBits == 12
\* Custom panels the user can add in one behaviour.
MaxPanels == 1
\* Tweens that can be active at the same time.
MaxTweens == 4
\* User events (pointer, form and button events) in one behaviour.
MaxEvents == 4

\* ------------------------------------------------------- exact numbers
Scale == 2 ^ ScaleBits

\* The exact half of an even integer (undefined when the division is not
\* exact, so that a loss of precision cannot go unnoticed).
Half(a) == CHOOSE h \in {a \div 2} : 2 * h = a

Num(n) == <<n * Scale, 0>>
NAdd(u, v) == <<u[1] + v[1], u[2] + v[2]>>
NSub(u, v) == <<u[1] - v[1], u[2] - v[2]>>
NNeg(u) == <<-u[1], -u[2]>>
NHalf(u) == <<Half(u[1]), Half(u[2])>>
\* u * (sqrt 2 / 2) = u * cos 45
MulHalfSqrt2(u) == <<u[2], Half(u[1])>>

\* a + b * sqrt 2 > 0 (common factors of two are cancelled before squaring)
RECURSIVE IsPos(_)
IsPos(u) ==
    LET a == u[1]
        b == u[2]
    IN  IF a >= 0 /\ b >= 0 THEN a > 0 \/ b > 0
        ELSE IF a <= 0 /\ b <= 0 THEN FALSE
        ELSE IF a % 2 = 0 /\ b % 2 = 0 THEN \E half \in {<<a \div 2, b \div 2>>} : IsPos(half)
        ELSE IF a > 0 THEN a * a > 2 * b * b
        ELSE 2 * b * b > a * a

NLeq(u, v) == ~IsPos(NSub(u, v))

\* ------------------------------------------------------- exact vectors
Vec(x, y) == <<Num(x), Num(y)>>
Zero2 == Vec(0, 0)
VAdd(p, q) == <<NAdd(p[1], q[1]), NAdd(p[2], q[2])>>
VSub(p, q) == <<NSub(p[1], q[1]), NSub(p[2], q[2])>>

Rot90(v) == <<NNeg(v[2]), v[1]>>
Rot45(v) == <<MulHalfSqrt2(NSub(v[1], v[2])), MulHalfSqrt2(NAdd(v[1], v[2]))>>

RECURSIVE Rot90N(_, _)
Rot90N(v, n) == IF n = 0 THEN v ELSE Rot90N(Rot90(v), n - 1)

\* Quaternion.multiply / Quaternion.invert on rotations about z.
QMul(j, k) == (j + k) % 8
QInv(k) == (8 - k) % 8

\* Vector3.applyQuaternion for the rotation by k * 45 degrees about z.
ApplyQuaternion(v, k) ==
    LET r == Rot90N(v, k \div 2)
    IN  IF k % 2 = 1 THEN Rot45(r) ELSE r

SetMaxInt(S) == CHOOSE m \in S : \A x \in S : x <= m

SetMin(S) == CHOOSE m \in S : \A x \in S : NLeq(m, x)
SetMax(S) == CHOOSE m \in S : \A x \in S : NLeq(x, m)

\* ------------------------------------------------------------ the scene
\* The scene after the load callback (init, loader.load): the containers,
\* the imported model with a structural mesh S that has a child mesh K, the
\* panel P1 that replaced the draggable mesh Orig (detached and disposed),
\* and the custom panels the user may add.
NoNode == "none"
CustomNames == <<"CustomPanel_1", "CustomPanel_2", "CustomPanel_3">>
CustomPanels == {CustomNames[i] : i \in 1..MaxPanels}
FixedNodes == {"baseModelContainer", "modelContainer", "model", "S", "K", "P1", "Orig"}
Nodes == FixedNodes \cup CustomPanels
Meshes == {"S", "K", "P1", "Orig"} \cup CustomPanels

Materials == {"standardMaterial", "panelMaterial", "highlightMaterial"}

\* Local vertices of a mesh that can be a draggable proxy (real units).
P1Vertices == {Vec(-2, -1), Vec(2, -1), Vec(2, 1), Vec(-1, 2)}
SVertices == {Vec(-3, -3), Vec(3, -3), Vec(3, 3), Vec(-3, 3)}
KVertices == {Vec(0, 0), Vec(1, 0), Vec(1, 1), Vec(0, 1)}

VARIABLES
    parent,                         \* Object3D.parent of every node (NoNode: detached)
    material,                       \* Mesh.material
    originalMaterials,              \* the Map originalMaterials
    draggableObjects,               \* the Set draggableObjects
    localPivotToBBoxCenterOffsets,  \* the Map localPivotToBBoxCenterOffsets
    intersectedObject,              \* the selected node, or NoNode
    coordPopupDisplay,              \* coordPopup.style.display
    deleteButtonDisplay,            \* deleteObjectButton.style.display
    isDragging,
    pointerDownOnDraggable,
    controlsEnabled,                \* controls.enabled
    position,                       \* Object3D.position of every mesh (local)
    geometry,                       \* the local vertices of every mesh of the scene
    baseQuat,                       \* baseModelContainer.quaternion
    mcQuat,                         \* modelContainer.quaternion
    tweens,                         \* the active tweens, in start order
    dragOffset,                     \* _dragOffset
    lightDir,                       \* directionalLight.position (a direction index)
    exportPc,                       \* where exportModel stands
    lastOp,                         \* history: the handler that ran last
    dragSession,                    \* history: the proxy of the open drag session
    staleOffsets,                   \* history: proxies whose world orientation changed
                                    \*          since their cached offset was computed
    events,                         \* history: the user events so far
    faceInput,                      \* the object handed to getFacesWithAreas
    negativeZero,                   \* whether a zero projection is -0 (atan2 gives -pi)
    faces,                          \* what getFacesWithAreas returned
    facesPc,                        \* "idle" or "done"
    faceGroups,                     \* currentFaceTriangles of each pass of the outer loop
    meshTriangles,                  \* the geometry of the meshes handed to the panel conversion
    panelAlert,                     \* what the alert of the last handler told the user
    customObjects,                  \* the meshes built by addObjectToScene
    displayedFor,                   \* history: the proxy, position, orientation and
                                    \*          light the displayed shadow coverage was
                                    \*          computed for (HiddenPopup: none shown)
    nodeKind,                       \* load: "mesh", "group" or "object3d" for every node
    is2DPanel,                      \* load: the meshes with userData.is2DPanel
    bbox,                           \* load: the extents of every mesh's own world box
    objectsToProcessForDraggability,
    processedObjects,
    classifierPc,                   \* where identifyDraggableObjectsByDimension stands
    inputParent,                    \* history: parent when the classifier was called
    shadowPc,                       \* where calculateShadowCoverage stands
    sampleIndex,                    \* its loop counter i
    shadowedSamples,
    intersects,                     \* castShadow of the hits of the last ray, nearest first
    isInShadow,
    sampledObject,                  \* the argument of calculateShadowCoverage
    helperInScene,                  \* directionalLightHelper is a child of the scene
    hitObjects,                     \* intersect.object of the hits of the last ray
    castingRays,                    \* history: the sample rays so far with a hit on a
                                    \*          shadow-casting node
    coverage,                       \* the value returned, in tenths of a percent
    warnings,                       \* the messages of console.warn, in order
    coordFields,                    \* the values of the coordinate inputs, in hundredths
    customAxesRotation,             \* the permanent orientation of the axes helper
    modelLoaded,                    \* modelContainer and baseModelContainer are defined
    plane,                          \* plane: the drag plane (normal axis, coordinate along it)
    turns                           \* history: the orientations before the first click on a
                                    \*          rotate button since the model was last at rest
                                    \*          and not reset, and the sum of the angles clicked

vars == <<parent, material, originalMaterials, draggableObjects,
          localPivotToBBoxCenterOffsets, intersectedObject, coordPopupDisplay,
          deleteButtonDisplay, isDragging,
          pointerDownOnDraggable, controlsEnabled, position, geometry,
          baseQuat, mcQuat, tweens, dragOffset, lightDir, exportPc,
          lastOp, dragSession, staleOffsets, events, displayedFor,
          panelAlert, customObjects, faceInput, negativeZero, faces, facesPc, faceGroups,
          meshTriangles,
          nodeKind, is2DPanel, bbox, objectsToProcessForDraggability,
          processedObjects, classifierPc, inputParent,
          shadowPc, sampleIndex, shadowedSamples, intersects, isInShadow,
          sampledObject, helperInScene, hitObjects, castingRays, coverage, warnings,
          coordFields, customAxesRotation, modelLoaded, plane, turns>>


\* ------------------------------------------------- the scene graph math
\* The transform state the matrix operations read: w.parent, w.position,
\* w.geometry, w.baseQuat, w.mcQuat.
World == [parent |-> parent, position |-> position, geometry |-> geometry,
          baseQuat |-> baseQuat, mcQuat |-> mcQuat]

\* Object3D.quaternion: only the two containers are ever rotated.
NodeQuat(w, n) == IF n = "baseModelContainer" THEN w.baseQuat
                  ELSE IF n = "modelContainer" THEN w.mcQuat
                  ELSE 0

\* Object3D.position: only meshes are ever moved (the containers stay at 0).
NodePos(w, n) == IF n \in DOMAIN w.position THEN w.position[n] ELSE Zero2

\* Object3D.getWorldQuaternion.
RECURSIVE GetWorldQuaternion(_, _)
GetWorldQuaternion(w, n) ==
    IF n = NoNode THEN 0
    ELSE QMul(GetWorldQuaternion(w, w.parent[n]), NodeQuat(w, n))

\* v (in n's local frame) * n.matrixWorld.
RECURSIVE LocalToWorld(_, _, _)
LocalToWorld(w, n, v) ==
    IF n = NoNode THEN v
    ELSE LocalToWorld(w, w.parent[n],
                      VAdd(NodePos(w, n), ApplyQuaternion(v, NodeQuat(w, n))))

\* p (a world point) * inverse(n.matrixWorld); identity for no node.
RECURSIVE WorldToLocal(_, _, _)
WorldToLocal(w, n, p) ==
    IF n = NoNode THEN p
    ELSE ApplyQuaternion(VSub(WorldToLocal(w, w.parent[n], p), NodePos(w, n)),
                         QInv(NodeQuat(w, n)))

\* getInverseParentMatrixWorld(object) applied to a world point.
GetInverseParentMatrixWorld(w, n, p) == WorldToLocal(w, w.parent[n], p)

\* Object3D.getWorldPosition.
GetWorldPosition(w, n) == LocalToWorld(w, n, Zero2)

\* containsMesh / traverse: the nodes of the subtree of root, root included.
RECURSIVE IsInSubtree(_, _, _)
IsInSubtree(par, n, root) ==
    IF n = NoNode THEN FALSE
    ELSE IF n = root THEN TRUE
    ELSE IsInSubtree(par, par[n], root)

Subtree(par, root) == {n \in DOMAIN par : IsInSubtree(par, n, root)}

\* new THREE.Box3().setFromObject(object, true).getCenter(): the centre of the
\* axis-aligned box of the world-space vertices of the object and its
\* descendants.
BBoxCenter(w, n) ==
    LET ms == Subtree(w.parent, n) \cap DOMAIN w.geometry
        pts == UNION {{LocalToWorld(w, m, v) : v \in w.geometry[m]} : m \in ms}
    IN  CHOOSE center \in
            {<<NHalf(NAdd(SetMin(xs), SetMax(xs))), NHalf(NAdd(SetMin(ys), SetMax(ys)))>> :
                xs \in {{p[1] : p \in pts}}, ys \in {{p[2] : p \in pts}}} : TRUE

\* calculateAndStoreLocalBBoxOffset: the value stored for the object.
CalculateLocalBBoxOffset(w, n) ==
    CHOOSE localOffset \in
        {ApplyQuaternion(worldOffsetFromPivotToBBoxCenter, QInv(GetWorldQuaternion(w, n))) :
            worldOffsetFromPivotToBBoxCenter \in
                {VSub(BBoxCenter(w, n), GetWorldPosition(w, n))}} : TRUE

\* The local position that puts the bounding-box centre of n at the world
\* point P, given the local offset read from the cache (onCoordInputChange,
\* onPointerMove).
PositionForBBoxCenter(w, n, P, localOffset) ==
    LET worldOrientedOffset == ApplyQuaternion(localOffset, GetWorldQuaternion(w, n))
        desiredPivotWorld == VSub(P, worldOrientedOffset)
    IN  GetInverseParentMatrixWorld(w, n, desiredPivotWorld)

\* The meshes raycaster.intersectObject(modelContainer, true) can return.
ClickableMeshes == {n \in Meshes : n # "modelContainer" /\ IsInSubtree(parent, n, "modelContainer")}


\* --------------------------------------------------------- user inputs
\* Values a coordinate edit can enter, points where the pointer ray can meet
\* the drag plane, and where on the proxy the pointer can go down (the
\* initial intersection point minus the bounding-box centre).
CoordInputs == {Vec(0, 0), Vec(3, 1)}
PlanePoints == {Vec(0, 0), Vec(3, 1)}
GrabOffsets == {Zero2, Vec(1, 0)}
LightDirs == {0, 1}
\* rotationAngle: a click turns by two steps of 45 degrees, either way, and
\* the frame in the middle of the tween shows one step.
RotationAngles == {2, 6}

\* ------------------------------------------------ the history variables
\* Neither the load-time classifier nor the shadow sampler takes a step.
UnchangedLoad ==
    UNCHANGED <<nodeKind, is2DPanel, bbox, objectsToProcessForDraggability,
                processedObjects, classifierPc, inputParent>>
UnchangedFaces ==
    UNCHANGED <<faceInput, negativeZero, faces, facesPc, faceGroups, meshTriangles>>
UnchangedShadow ==
    UNCHANGED <<shadowPc, sampleIndex, shadowedSamples, intersects, isInShadow,
                sampledObject, helperInScene, hitObjects, castingRays, coverage, warnings>>

\* ---------------------------------------------------------- add-panel form

\* What the add-panel form can hold: numeric is whether all twelve fields
\* parse, pts the four points, each coordinate in sixteenths of a unit.
Form(numeric, p1, p2, p3, p4) == [numeric |-> numeric, pts |-> <<p1, p2, p3, p4>>]
Units(x, y, z) == <<16 * x, 16 * y, 16 * z>>
PanelForms ==
    { Form(FALSE, Units(0, 0, 0), Units(0, 0, 0), Units(0, 0, 0), Units(0, 0, 0)),
      Form(TRUE, Units(0, 0, 0), Units(1, 0, 0), Units(2, 0, 0), Units(0, 1, 0)),
      Form(TRUE, Units(0, 0, 0), Units(2, 0, 0), Units(2, 1, 0), Units(0, 1, 1)),
      Form(TRUE, Units(0, 0, 0), Units(2, 0, 0), Units(2, 1, 0), Units(4, 2, 0)),
      Form(TRUE, Units(0, 0, 0), Units(2, 0, 0), Units(2, 1, 0), Units(0, 2, 0)) }

Sub3(p, q) == <<p[1] - q[1], p[2] - q[2], p[3] - q[3]>>
Cross3(u, v) == <<u[2] * v[3] - u[3] * v[2], u[3] * v[1] - u[1] * v[3],
                  u[1] * v[2] - u[2] * v[1]>>
Dot3(u, v) == u[1] * v[1] + u[2] * v[2] + u[3] * v[3]
LengthSq3(u) == Dot3(u, u)

Abs(a) == IF a < 0 THEN -a ELSE a

RECURSIVE GCD(_, _)
GCD(a, b) == IF b = 0 THEN Abs(a) ELSE GCD(b, a % b)

\* ------------------------------------------------- faces of a mesh

\* What getFacesWithAreas is handed: kind tells a mesh with a position
\* attribute from null, a node that is no mesh, a mesh without geometry and
\* a geometry without positions; triangles are the triangles of the mesh in
\* world space, three vertices <<x, y, z>> each, in the order of the index.
\* Coordinates are whole multiples of 1/200 of a unit.
FaceInput(kind, triangles) == [kind |-> kind, triangles |-> triangles]

\* Vector3.normalize, up to the length: the shortest whole vector of the
\* same direction, which is the unit vector for a vector along an axis
\* (the zero vector stays). The unit vector is this one over its length.
Normalize(n) ==
    LET g == GCD(GCD(Abs(n[1]), Abs(n[2])), Abs(n[3]))
    IN  IF g = 0 THEN n ELSE <<n[1] \div g, n[2] \div g, n[3] \div g>>

\* THREE.Triangle.getNormal: the direction of the unit normal of a
\* triangle; (0,0,0) for a degenerate triangle.
TriangleNormal(t) == Normalize(Cross3(Sub3(t[3], t[2]), Sub3(t[1], t[2])))

\* plane.distanceToPoint(v) for the plane through the triangle t, times the
\* length of TriangleNormal(t).
DistanceToPoint(t, v) == Dot3(TriangleNormal(t), Sub3(v, t[1]))

\* 1 / coplanarTolerance
CoplanarToleranceInv == 100

\* The test of the inner loop without the distances to the plane.
SameNormal(cur, other) ==
    LET n1 == TriangleNormal(cur)
        n2 == TriangleNormal(other)
        T == CoplanarToleranceInv
    IN  /\ Dot3(n1, n2) > 0
        /\ (T * Dot3(n1, n2)) * (T * Dot3(n1, n2)) >
               (T - 1) * (T - 1) * LengthSq3(n1) * LengthSq3(n2)

\* currentNormal.dot(otherNormal) > 1 - coplanarTolerance, and no vertex of
\* the other triangle farther than coplanarTolerance from the plane of the
\* current one: with unit normals n / |n|, and distances in 1/200 of a unit.
SamePlane(cur, other) ==
    LET n1 == TriangleNormal(cur)
        n2 == TriangleNormal(other)
        T == CoplanarToleranceInv
    IN  /\ Dot3(n1, n2) > 0
        /\ (T * Dot3(n1, n2)) * (T * Dot3(n1, n2)) >
               (T - 1) * (T - 1) * LengthSq3(n1) * LengthSq3(n2)
        /\ \A k \in 1..3 :
               (T * DistanceToPoint(cur, other[k])) * (T * DistanceToPoint(cur, other[k]))
                   <= 200 * 200 * LengthSq3(n1)

\* The loops over i and j: the groups of triangles, by index, in the order
\* they are opened; a triangle joins the group of the first unused triangle
\* it shares a plane and a side with.
RECURSIVE GroupTriangles(_, _, _)
GroupTriangles(tris, i, used) ==
    IF i > Len(tris) THEN <<>>
    ELSE IF i \in used THEN GroupTriangles(tris, i + 1, used)
    ELSE LET joined == {j \in (i + 1)..Len(tris) :
                           j \notin used /\ SamePlane(tris[i], tris[j])}
             group == SelectSeq([k \in 1..Len(tris) |-> k],
                                LAMBDA k : k = i \/ k \in joined)
         IN  <<group>> \o GroupTriangles(tris, i + 1, used \cup {i} \cup joined)

\* faceVerticesMap: the vertices of the triangles of a group, each once, in
\* the order they were first met.
RECURSIVE FirstOccurrences(_)
FirstOccurrences(s) ==
    IF s = <<>> THEN <<>>
    ELSE LET r == FirstOccurrences(SubSeq(s, 1, Len(s) - 1))
             v == s[Len(s)]
         IN  IF \E k \in 1..Len(r) : r[k] = v THEN r ELSE Append(r, v)

\* basisX and basisY of the sort, up to their lengths, for the normal
\* n / |n|: the x axis (or, when |normal.x| or |normal.y| is 0.9 or more,
\* the y axis) projected on the plane and normalized, which leaves (0,0,0)
\* for a normal along y. projectOnPlane leaves the axis as it is for the
\* zero normal.
SeedAxis(n) ==
    LET L == LengthSq3(n)
    IN  IF L = 0 \/ (100 * n[1] * n[1] < 81 * L /\ 100 * n[2] * n[2] < 81 * L)
        THEN <<1, 0, 0>> ELSE <<0, 1, 0>>
BasisX(n) ==
    LET L == LengthSq3(n)
        e == SeedAxis(n)
        d == Dot3(e, n)
    IN  Normalize(<<L * e[1] - n[1] * d, L * e[2] - n[2] * d, L * e[3] - n[3] * d>>)
BasisY(n) == Normalize(Cross3(n, BasisX(n)))

\* Where Math.atan2(y, x) lies: 1 in (-pi, 0), 2 at 0 (atan2(0, 0) = 0),
\* 3 in (0, pi), 4 at pi, 0 at -pi (a zero y of negative sign).
AngleClass(q, minus) ==
    IF q[2] < 0 THEN 1
    ELSE IF q[2] > 0 THEN 3
    ELSE IF q[1] >= 0 THEN 2
    ELSE IF minus THEN 0 ELSE 4

\* angleA - angleB < 0
AngleLess(a, b, minus) ==
    \/ AngleClass(a, minus) < AngleClass(b, minus)
    \/ /\ AngleClass(a, minus) = AngleClass(b, minus)
       /\ AngleClass(a, minus) \in {1, 3}
       /\ a[1] * b[2] - a[2] * b[1] > 0

\* Array.prototype.sort (stable) with a comparator that is negative
\* exactly for the pairs of indices in less.
StableSort(s, less) ==
    LET rank(i) == 1 + Cardinality({j \in 1..Len(s) :
                       <<j, i>> \in less \/ (<<i, j>> \notin less /\ j < i)})
    IN  [k \in 1..Len(s) |-> s[CHOOSE i \in 1..Len(s) : rank(i) = k]]

\* uniqueVertices.sort(...): by the angle about the centroid (the vectors
\* from the centroid are taken Len(verts) times as long, to stay whole).
SortAroundCentroid(verts, n, minus) ==
    LET sums[k \in 0..Len(verts)] ==
            IF k = 0 THEN <<0, 0, 0>>
            ELSE <<sums[k - 1][1] + verts[k][1], sums[k - 1][2] + verts[k][2],
                   sums[k - 1][3] + verts[k][3]>>
        sum == sums[Len(verts)]
        proj(v) == LET w == <<Len(verts) * v[1] - sum[1], Len(verts) * v[2] - sum[2],
                              Len(verts) * v[3] - sum[3]>>
                   IN  <<Dot3(w, BasisX(n)), Dot3(w, BasisY(n))>>
    IN  IF Len(verts) > 2
        THEN StableSort(verts, {ij \in (1..Len(verts)) \X (1..Len(verts)) :
                 AngleLess(proj(verts[ij[1]]), proj(verts[ij[2]]), minus)})
        ELSE verts

RECURSIVE Shoelace(_, _)
Shoelace(q, i) ==
    IF i > Len(q) THEN 0
    ELSE LET p1 == q[i]
             p2 == q[(i % Len(q)) + 1]
         IN  (p1[1] * p2[2] - p1[2] * p2[1]) + Shoelace(q, i + 1)

\* calculatePolygonArea(vertices): the square of the doubled area, as a
\* fraction <<numerator, denominator>> in lowest terms. The polygon is
\* projected along the dominant axis of the normal of its first three
\* vertices and its area divided by that component of the unit normal; for
\* the zero normal of three collinear vertices the scale factor is not
\* finite and the projected area is returned.
CalculatePolygonArea(vertices) ==
    IF Len(vertices) < 3 THEN <<0, 1>>
    ELSE LET normal == Cross3(Sub3(vertices[2], vertices[1]),
                              Sub3(vertices[3], vertices[1]))
             ax == Abs(normal[1])
             ay == Abs(normal[2])
             az == Abs(normal[3])
             projected ==
                 IF ax >= ay /\ ax >= az
                 THEN [i \in 1..Len(vertices) |-> <<vertices[i][2], vertices[i][3]>>]
                 ELSE IF ay >= ax /\ ay >= az
                 THEN [i \in 1..Len(vertices) |-> <<vertices[i][1], vertices[i][3]>>]
                 ELSE [i \in 1..Len(vertices) |-> <<vertices[i][1], vertices[i][2]>>]
             a == Abs(Shoelace(projected, 1))
             dominant == SetMaxInt({ax, ay, az})
             num == a * a * LengthSq3(normal)
             den == dominant * dominant
             g == GCD(num, den)
         IN  IF dominant = 0 THEN <<a * a, 1>>
             ELSE <<num \div g, den \div g>>

\* One face of getFacesWithAreas: the sorted vertices of a group, the normal
\* of its first triangle and the area (doubled and squared).
Face(tris, group, minus) ==
    LET n == TriangleNormal(tris[group[1]])
        met[k \in 0..Len(group)] ==
            IF k = 0 THEN <<>> ELSE met[k - 1] \o tris[group[k]]
        sorted == SortAroundCentroid(FirstOccurrences(met[Len(group)]), n, minus)
    IN  [vertices |-> sorted, normal |-> n, area |-> CalculatePolygonArea(sorted)]

\* A getFacesWithAreas that keeps the faces in the order they were found.
GetFacesUnsorted(object, minus) ==
    IF object.kind # "mesh" THEN <<>>
    ELSE LET groups == GroupTriangles(object.triangles, 1, {})
             found == [g \in 1..Len(groups) |-> Face(object.triangles, groups[g], minus)]
         IN  SelectSeq(found, LAMBDA f : f.area[1] > 0)

\* getFacesWithAreas(object)
GetFacesWithAreas(object, minus) ==
    IF object.kind # "mesh" THEN <<>>
    ELSE LET groups == GroupTriangles(object.triangles, 1, {})
             found == [g \in 1..Len(groups) |-> Face(object.triangles, groups[g], minus)]
             kept == SelectSeq(found, LAMBDA f : f.area[1] > 0)
         IN  StableSort(kept, {ij \in (1..Len(kept)) \X (1..Len(kept)) :
                 kept[ij[2]].area[1] * kept[ij[1]].area[2]
                     - kept[ij[1]].area[1] * kept[ij[2]].area[2] < 0})

\* getFacesWithAreas has not been called.
FacesIdle ==
    /\ faceInput = FaceInput("null", <<>>)
    /\ negativeZero = FALSE
    /\ faces = <<>>
    /\ facesPc = "idle"
    /\ faceGroups = <<>>
    /\ meshTriangles = <<>>

\* ------------------------------------------------- add-panel validation

\* 1 / COLLINEARITY_EPSILON_SQ and 1 / EPSILON^2
CollinearityEpsilonSqInv == 10000
EpsilonSqInv == 10000

\* A collinearity test that rejects an exactly vanishing cross product only.
CollinearExactly(u, v) == LengthSq3(Cross3(u, v)) = 0

\* cross(u, v).lengthSq() < COLLINEARITY_EPSILON_SQ; the squared length of
\* the cross product of two vectors in sixteenths is in units of 1 / 16^4.
Collinear(u, v) ==
    LengthSq3(Cross3(u, v)) <
        (16 * 16 * 16 * 16 + CollinearityEpsilonSqInv - 1) \div CollinearityEpsilonSqInv

\* Math.abs(dotProduct) > EPSILON for dotProduct = d / (16 * sqrt L), where
\* d is the dot product with the cross product n and L = n.lengthSq():
\* EpsilonSqInv * d^2 > 256 * L, evaluated without leaving 32 bits.
OffPlane(d, L) ==
    IF Abs(d) >= 46341 THEN TRUE
    ELSE d * d > (L \div EpsilonSqInv) * 256 + ((L % EpsilonSqInv) * 256) \div EpsilonSqInv

\* addObjectToScene: the validation of the four points; lengths and dot
\* products do not depend on the frame the points are expressed in.
ValidatePanel(f) ==
    LET p == f.pts
        v12 == Sub3(p[2], p[1])
        v13 == Sub3(p[3], p[1])
        v14 == Sub3(p[4], p[1])
        v23 == Sub3(p[3], p[2])
        v24 == Sub3(p[4], p[2])
        n == Cross3(v12, v13)
        d == Dot3(v14, n)
    IN  IF ~f.numeric THEN "notNumeric"
        ELSE IF Collinear(v12, v13) THEN "collinear"
        ELSE IF OffPlane(d, LengthSq3(n)) THEN "notCoplanar"
        ELSE IF Collinear(v13, v14) \/ Collinear(v12, v14) \/ Collinear(v23, v24)
             THEN "degenerate"
        ELSE "accepted"

\* Number.toFixed(2) of (a + b * sqrt 2) / D for u = <<a, b>> and D > 0, in
\* hundredths: the nearest hundredth, the one farther from zero on a tie.
RECURSIVE ToFixed2(_, _)
ToFixed2(u, D) ==
    IF IsPos(NNeg(u)) THEN -ToFixed2(NNeg(u), D)
    ELSE LET g == GCD(GCD(Abs(u[1]), Abs(u[2])), D)
             a == u[1] \div g
             b == u[2] \div g
             E == D \div g
             e == (100 * a + 141 * b) \div E
         IN  CHOOSE h \in (e - 3)..(e + 3) :
                 /\ ~IsPos(<<(2 * h - 1) * E - 200 * a, -200 * b>>)
                 /\ IsPos(<<(2 * h + 1) * E - 200 * a, -200 * b>>)

\* projectedP4 = p4 - normal * dotProduct, as the alert prints it: the three
\* coordinates with two decimals, in the frame of baseModelContainer (the
\* projection in the frame of the form, turned by the inverse of base).
SuggestedPoint(f, base) ==
    LET p == f.pts
        n == Cross3(Sub3(p[2], p[1]), Sub3(p[3], p[1]))
        d == Dot3(Sub3(p[4], p[1]), n)
        g == GCD(d, LengthSq3(n))
        den == LengthSq3(n) \div g
        k == d \div g
        num == [i \in 1..3 |-> p[4][i] * den - n[i] * k]
        xy == ApplyQuaternion(<<<<2 * num[1], 0>>, <<2 * num[2], 0>>>>, QInv(base))
    IN  <<ToFixed2(xy[1], 32 * den), ToFixed2(xy[2], 32 * den),
          ToFixed2(<<2 * num[3], 0>>, 32 * den)>>

\* No alert on the screen.
NoAlert == [kind |-> "none", point |-> <<0, 0, 0>>, form |-> Form(FALSE, <<>>, <<>>, <<>>, <<>>)]

\* An addObjectToScene that returns silently from a failed check.
PanelAlertOnSuccessOnly(f, base) ==
    IF ValidatePanel(f) = "accepted"
    THEN [kind |-> "accepted", point |-> <<0, 0, 0>>, form |-> f]
    ELSE NoAlert

\* What alert(...) tells the user at the end of addObjectToScene: which
\* message, the point it suggests, and the form it answers.
PanelAlert(f, base) ==
    [kind |-> ValidatePanel(f),
     point |-> IF ValidatePanel(f) = "notCoplanar" THEN SuggestedPoint(f, base)
               ELSE <<0, 0, 0>>,
     form |-> f]

\* A point of the form in the numbers of the scene.
FormVec(p) == <<<<p[1] * (Scale \div 16), 0>>, <<p[2] * (Scale \div 16), 0>>>>

\* The point in the frame of modelContainer, the parent of the new mesh.
ToModelFrame(p, base) == <<ApplyQuaternion(FormVec(p), QInv(QMul(base, mcQuat))), p[3]>>

\* p.applyMatrix4(inverseBaseModelWorldMatrix): the point in the frame of
\* baseModelContainer.
ToBaseFrame(p, base) == <<ApplyQuaternion(FormVec(p), QInv(base)), p[3]>>

\* The mesh addObjectToScene builds: the position attribute, the index and
\* userData.is2DPanel.
CustomObject(f, base) ==
    [positions |-> [i \in 1..4 |-> ToBaseFrame(f.pts[i], base)],
     index |-> <<0, 1, 2, 0, 2, 3>>,
     is2DPanel |-> TRUE]

\* A user event is delivered.
UserEvent ==
    /\ events < MaxEvents
    /\ events' = events + 1
    /\ UnchangedLoad /\ UnchangedShadow /\ UnchangedFaces

Op(name, node, P, wrote, hit) ==
    [name |-> name, node |-> node, P |-> P, wrote |-> wrote, planeHit |-> hit]

\* ------------------------------------------------- the coverage popup
\* calculateShadowCoverage(object) followed by showShadowCoveragePopup: what
\* the value now displayed was computed for.
ShowShadowCoverage(object, pos, base, mc, light) ==
    [node |-> object, pos |-> pos, quat |-> QMul(base, mc), light |-> light]

\* hideShadowCoveragePopup(): no value is displayed.
HiddenPopup == [node |-> NoNode, pos |-> Zero2, quat |-> 0, light |-> 0]

\* updateCoordPopup(object): the centre of the object's world box, written
\* to the inputs with two decimals.
UpdateCoordPopup(w, n) ==
    LET worldPos == BBoxCenter(w, n)
    IN  <<ToFixed2(worldPos[1], Scale), ToFixed2(worldPos[2], Scale)>>

\* onPointerDown and the document listener after it: the popup is hidden
\* when the selection changes or is dropped, and shown for a newly selected
\* member of draggableObjects.
PopupAfterPointerDown(new) ==
    IF new # NoNode
    THEN IF intersectedObject # new
         THEN IF new \in draggableObjects
              THEN ShowShadowCoverage(new, position[new], baseQuat, mcQuat, lightDir)
              ELSE HiddenPopup
         ELSE displayedFor
    ELSE IF intersectedObject # NoNode THEN HiddenPopup ELSE displayedFor

\* ------------------------------------------------------ selection state
\* The fields the selection handlers read and write, as one record, so that
\* a handler calling another is a composition.
Sel == [mat |-> material, orig |-> originalMaterials, sel |-> intersectedObject,
        drag |-> isDragging, pdd |-> pointerDownOnDraggable,
        ctl |-> controlsEnabled, off |-> dragOffset,
        popup |-> coordPopupDisplay, del |-> deleteButtonDisplay]

ApplySel(st) ==
    /\ material' = st.mat
    /\ originalMaterials' = st.orig
    /\ intersectedObject' = st.sel
    /\ isDragging' = st.drag
    /\ pointerDownOnDraggable' = st.pdd
    /\ controlsEnabled' = st.ctl
    /\ dragOffset' = st.off
    /\ coordPopupDisplay' = st.popup
    /\ deleteButtonDisplay' = st.del

\* restoreOriginalMaterials(objectToRestore)
RestoreOriginalMaterials(st, obj) ==
    IF obj # NoNode /\ obj \in Meshes /\ obj \in DOMAIN st.orig
    THEN [st EXCEPT !.mat = [st.mat EXCEPT ![obj] = st.orig[obj]],
                    !.orig = [m \in (DOMAIN st.orig) \ {obj} |-> st.orig[m]]]
    ELSE st

\* A hideCoordPopup() that leaves the selection as it is.
HideCoordPopupKeepsSelection(st) == [st EXCEPT !.drag = FALSE, !.pdd = FALSE]

\* hideCoordPopup() without its second line.
HideCoordPopupKeepsButton(st) ==
    LET r == IF st.sel # NoNode
             THEN [RestoreOriginalMaterials(st, st.sel) EXCEPT !.sel = NoNode]
             ELSE st
    IN  [r EXCEPT !.popup = "none", !.drag = FALSE, !.pdd = FALSE]

\* hideCoordPopup()
HideCoordPopup(st) ==
    LET r == IF st.sel # NoNode
             THEN [RestoreOriginalMaterials(st, st.sel) EXCEPT !.sel = NoNode]
             ELSE st
    IN  [r EXCEPT !.popup = "none", !.del = "none", !.drag = FALSE, !.pdd = FALSE]

\* onPointerDown: the walk up from the closest intersected mesh to the first
\* member of draggableObjects below modelContainer.
RECURSIVE FirstDraggableUp(_)
FirstDraggableUp(n) ==
    IF n = NoNode \/ n = "modelContainer" THEN NoNode
    ELSE IF n \in draggableObjects THEN n
    ELSE FirstDraggableUp(parent[n])

\* onPointerDown: newSelectedObject for the closest intersected mesh (NoNode:
\* the ray meets nothing under modelContainer).
NewSelectedObject(hit) ==
    IF hit = NoNode THEN NoNode
    ELSE IF hit \in draggableObjects THEN hit
    ELSE LET d == FirstDraggableUp(hit)
         IN  IF d # NoNode THEN d ELSE hit

\* new THREE.Plane(): normal (1, 0, 0), constant 0.
DefaultPlane == [normal |-> 1, coord |-> Num(0)]

\* setupDragPlane: the axis the camera looks along most is the plane's
\* normal.  The camera is moved by OrbitControls and setView; its direction
\* at pointer-down is an input.
PlaneNormals == 1 .. 3
\* The camera of the loaded model is at initialFrontView and looks along
\* axis 3.
FrontView == 3

\* setupDragPlane(objectWorldPosition): the plane with that normal through
\* the bounding-box centre of n.  The coordinate along axis 3 is 0 for
\* every point of the model.
SetupDragPlane(w, n, normal) ==
    [normal |-> normal,
     coord |-> IF normal = 3 THEN Num(0) ELSE BBoxCenter(w, n)[normal]]

\* raycaster.ray.intersectPlane(pl, target) for a pointer over the point X
\* of the model: the point of the plane the ray meets.
IntersectPlane(pl, X) ==
    IF pl.normal = 3 THEN X ELSE [X EXCEPT ![pl.normal] = pl.coord]

\* onPointerDown(event) on the canvas; grab is what setupDragPlane stores in
\* _dragOffset.
OnPointerDown(st, hit, grab) ==
    LET new == NewSelectedObject(hit)
        isDraggable == new \in draggableObjects
    IN  IF new # NoNode
        THEN IF st.sel # new
             THEN LET r == RestoreOriginalMaterials(st, st.sel)
                      sub == Subtree(parent, new) \cap Meshes
                  IN  [r EXCEPT !.sel = new,
                                !.orig = [m \in sub |-> r.mat[m]],
                                !.mat = [m \in Meshes |->
                                           IF m \in sub THEN "highlightMaterial"
                                           ELSE r.mat[m]],
                                !.del = "block",
                                !.popup = "flex",
                                !.pdd = isDraggable,
                                !.ctl = ~isDraggable,
                                !.off = IF isDraggable THEN grab ELSE r.off]
             ELSE IF isDraggable
                  THEN [st EXCEPT !.pdd = TRUE, !.ctl = FALSE, !.off = grab]
                  ELSE [st EXCEPT !.pdd = FALSE, !.ctl = TRUE]
        ELSE LET r == IF st.sel # NoNode
                      THEN HideCoordPopup(
                               [RestoreOriginalMaterials(st, st.sel) EXCEPT !.sel = NoNode])
                      ELSE st
             IN  [r EXCEPT !.ctl = TRUE, !.pdd = FALSE]

\* document.addEventListener('pointerdown', ...): target is "canvas", "ui" (a
\* control, a popup, a button) or "outside" (anything else).
DocumentPointerDown(st, target, hit) ==
    IF target = "outside" /\ st.sel # NoNode
    THEN HideCoordPopup(st)
    ELSE IF target = "canvas" /\ ~st.drag /\ hit = NoNode /\ st.sel # NoNode
    THEN HideCoordPopup(st)
    ELSE st

\* What no selection handler touches.
UnchangedScene == UNCHANGED <<parent, draggableObjects, geometry>>
UnchangedTransforms == UNCHANGED <<position, baseQuat, mcQuat, tweens,
                                   localPivotToBBoxCenterOffsets, staleOffsets>>
UnchangedMisc == UNCHANGED <<lightDir, exportPc>>

\* A pointer-down on the canvas: the canvas listener, then the document
\* listener the event bubbles to.
CanvasPointerDown(hit, grab, normal) ==
    LET new == NewSelectedObject(hit)
        isDraggable == new # NoNode /\ new \in draggableObjects
        pl == IF isDraggable THEN SetupDragPlane(World, new, normal) ELSE plane
        \* initialIntersectionPoint - currentWorldBBoxCenter: both lie in
        \* the plane
        offset == IF isDraggable
                  THEN VSub(IntersectPlane(pl, VAdd(BBoxCenter(World, new), grab)),
                            BBoxCenter(World, new))
                  ELSE grab
    IN  /\ UserEvent
        /\ ApplySel(DocumentPointerDown(OnPointerDown(Sel, hit, offset), "canvas", hit))
        /\ plane' = pl
        /\ dragSession' = IF new # NoNode /\ new \in draggableObjects THEN new ELSE NoNode
        /\ panelAlert' = NoAlert
        /\ UNCHANGED customObjects
        /\ lastOp' = Op("pointerDown", new, Zero2, FALSE, FALSE)
        /\ UNCHANGED <<customAxesRotation, modelLoaded, turns>>
        /\ coordFields' = IF new # NoNode /\ new # intersectedObject
                          THEN UpdateCoordPopup(World, new) ELSE coordFields
        /\ displayedFor' = PopupAfterPointerDown(new)
        /\ UnchangedScene /\ UnchangedTransforms /\ UnchangedMisc

\* A pointer-down outside the canvas and outside every control.
OutsidePointerDown ==
    /\ UserEvent
    /\ ApplySel(DocumentPointerDown(Sel, "outside", NoNode))
    /\ dragSession' = IF intersectedObject # NoNode THEN NoNode ELSE dragSession
    /\ panelAlert' = NoAlert
    /\ UNCHANGED customObjects
    /\ UNCHANGED <<coordFields, customAxesRotation, modelLoaded, plane, turns>>
    /\ lastOp' = Op("outsideDown", NoNode, Zero2, FALSE, FALSE)
    /\ displayedFor' = IF intersectedObject # NoNode THEN HiddenPopup ELSE displayedFor
    /\ UnchangedScene /\ UnchangedTransforms /\ UnchangedMisc

\* onPointerUp(event)
OnPointerUp ==
    /\ UserEvent
    /\ ApplySel([Sel EXCEPT !.ctl = TRUE, !.drag = FALSE, !.pdd = FALSE])
    /\ dragSession' = NoNode
    /\ panelAlert' = NoAlert
    /\ UNCHANGED customObjects
    /\ UNCHANGED <<coordFields, customAxesRotation, modelLoaded, plane, turns>>
    /\ lastOp' = Op("pointerUp", NoNode, Zero2, FALSE, FALSE)
    /\ UNCHANGED displayedFor
    /\ UnchangedScene /\ UnchangedTransforms /\ UnchangedMisc


\* ------------------------------------------------------ position writes
\* A drag branch that tests the button only.
DragActiveButtonOnly(buttons1) == buttons1

\* onPointerMove: the drag branch is entered.
DragActive(buttons1) == pointerDownOnDraggable /\ buttons1

\* getOrCalculateLocalOffset(object) / the same lines of onCoordInputChange:
\* the cached offset, computed and stored first when there is none.
GetOrCalculateLocalOffset(n) ==
    IF n \in DOMAIN localPivotToBBoxCenterOffsets
    THEN localPivotToBBoxCenterOffsets[n]
    ELSE CalculateLocalBBoxOffset(World, n)

\* The position write shared by onPointerMove and onCoordInputChange.
WritePosition(n, P) ==
    /\ position' = [position EXCEPT
                       ![n] = PositionForBBoxCenter(World, n, P, GetOrCalculateLocalOffset(n))]
    /\ localPivotToBBoxCenterOffsets' =
           IF n \in DOMAIN localPivotToBBoxCenterOffsets
           THEN localPivotToBBoxCenterOffsets
           ELSE [m \in (DOMAIN localPivotToBBoxCenterOffsets) \cup {n} |->
                    IF m = n THEN CalculateLocalBBoxOffset(World, n)
                    ELSE localPivotToBBoxCenterOffsets[m]]
    /\ staleOffsets' = IF n \in DOMAIN localPivotToBBoxCenterOffsets
                       THEN staleOffsets ELSE staleOffsets \ {n}

\* onPointerMove(event): buttons1 is event.buttons === 1, moved is a movement
\* of more than 2 pixels, planeHit whether the pointer ray meets the drag
\* plane, and X the point where it does.
OnPointerMove(buttons1, moved, planeHit, X) ==
    LET active == DragActive(buttons1)
        dragging == active /\ (isDragging \/ moved)
        n == intersectedObject
        writes == active /\ dragging /\ n # NoNode /\ planeHit
        desired == VSub(IntersectPlane(plane, X), dragOffset)
    IN  /\ UserEvent
        /\ isDragging' = dragging
        /\ IF writes
           THEN WritePosition(n, desired)
           ELSE UNCHANGED <<position, localPivotToBBoxCenterOffsets, staleOffsets>>
        /\ displayedFor' =
               IF writes
               THEN ShowShadowCoverage(n, position'[n], baseQuat, mcQuat, lightDir)
               ELSE displayedFor
        /\ panelAlert' = NoAlert
        /\ UNCHANGED customObjects
        /\ UNCHANGED <<customAxesRotation, modelLoaded, plane, turns>>
        /\ coordFields' = IF writes
                          THEN UpdateCoordPopup([World EXCEPT !.position = position'], n)
                          ELSE coordFields
        /\ deleteButtonDisplay' = IF writes THEN "block" ELSE deleteButtonDisplay
        /\ lastOp' = Op("pointerMove", IF writes THEN n ELSE NoNode,
                        IF writes THEN desired ELSE Zero2, writes, planeHit)
        /\ UNCHANGED <<material, originalMaterials, intersectedObject, coordPopupDisplay,
                       pointerDownOnDraggable, controlsEnabled, dragOffset,
                       baseQuat, mcQuat, tweens, dragSession>>
        /\ UnchangedScene /\ UnchangedMisc

\* A coordinate edit that moves whatever is selected.
CoordEditOfAnySelection(n, numeric) == n # NoNode /\ numeric

\* onCoordInputChange: the edit is applied when there is a selection, it is
\* a member of draggableObjects and none of the three fields parses to NaN
\* (the inputs are of type number: a field that is no number reads "").
CoordEditApplies(n, numeric) == n # NoNode /\ n \in draggableObjects /\ numeric

\* onCoordInputChange(): numeric is whether the three fields parse as numbers,
\* P the point they hold.
OnCoordInputChange(numeric, P) ==
    LET n == intersectedObject
        writes == CoordEditApplies(n, numeric)
    IN  /\ UserEvent
        /\ IF writes
           THEN WritePosition(n, P)
           ELSE UNCHANGED <<position, localPivotToBBoxCenterOffsets, staleOffsets>>
        /\ displayedFor' =
               IF writes
               THEN ShowShadowCoverage(n, position'[n], baseQuat, mcQuat, lightDir)
               ELSE displayedFor
        /\ panelAlert' = NoAlert
        /\ UNCHANGED customObjects
        /\ UNCHANGED <<customAxesRotation, modelLoaded, plane, turns>>
        /\ coordFields' = IF n # NoNode
                          THEN UpdateCoordPopup([World EXCEPT !.position = position'], n)
                          ELSE coordFields
        /\ deleteButtonDisplay' = IF n # NoNode THEN "block" ELSE deleteButtonDisplay
        /\ lastOp' = Op("coordInput", IF writes THEN n ELSE NoNode,
                        IF writes THEN P ELSE Zero2, writes, FALSE)
        /\ UNCHANGED <<material, originalMaterials, intersectedObject, coordPopupDisplay,
                       isDragging, pointerDownOnDraggable, controlsEnabled, dragOffset,
                       baseQuat, mcQuat, tweens, dragSession>>
        /\ UnchangedScene /\ UnchangedMisc

\* ------------------------------------------------ rotation and tweens
\* No click on a rotate button is on record.
NoTurns == [from |-> 0, axesFrom |-> 0, total |-> 0, open |-> FALSE]

\* A tween: kind is "model" (rotateModel's tween of modelContainer.quaternion),
\* "reset" (resetModelOrientation's), "axes" (the axes-helper tween of either)
\* or "view" (setView's tween of controls.target); mid is the orientation its
\* middle frame shows, to the orientation it ends on, left the frames it
\* still has, export whether exportModel awaits it.
Tween(kind, mid, to, left, export) ==
    [kind |-> kind, mid |-> mid, to |-> to, left |-> left, export |-> export]

\* The orientation TWEEN interpolates to between from and to: one step from
\* from on the shorter way, from itself when the two are less than two steps
\* apart.
Intermediate(from, to) ==
    LET d == (to - from + 8) % 8
    IN  IF d \in {0, 1, 7} THEN from
        ELSE IF d <= 4 THEN QMul(from, 1)
        ELSE QMul(from, 7)

\* draggableObjects.forEach(obj => calculateAndStoreLocalBBoxOffset(obj))
RecomputeOffsets(w, offs) ==
    [n \in (DOMAIN offs) \cup draggableObjects |->
        IF n \in draggableObjects THEN CalculateLocalBBoxOffset(w, n) ELSE offs[n]]

\* rotateModel(axis, angle): a click on a rotate button.
RotateModel(angle) ==
    /\ UserEvent
    /\ modelLoaded
    /\ Len(tweens) + 2 <= MaxTweens
    /\ controlsEnabled' = FALSE
    /\ tweens' = tweens \o
           <<Tween("axes", 0, QMul(customAxesRotation, angle), 2, FALSE),
             Tween("model", Intermediate(mcQuat, QMul(mcQuat, angle)),
                   QMul(mcQuat, angle), 2, FALSE)>>
    /\ turns' = IF turns.open THEN [turns EXCEPT !.total = QMul(@, angle)]
                ELSE IF tweens = <<>>
                THEN [from |-> mcQuat, axesFrom |-> customAxesRotation,
                      total |-> angle, open |-> TRUE]
                ELSE NoTurns
    /\ panelAlert' = NoAlert
    /\ UNCHANGED customObjects
    /\ UNCHANGED <<coordFields, customAxesRotation, modelLoaded, plane>>
    /\ lastOp' = Op("rotateModel", NoNode, Zero2, FALSE, FALSE)
    /\ UNCHANGED displayedFor
    /\ UNCHANGED <<material, originalMaterials, intersectedObject, coordPopupDisplay,
                   deleteButtonDisplay, isDragging,
                   pointerDownOnDraggable, dragOffset, position, baseQuat, mcQuat,
                   localPivotToBBoxCenterOffsets, staleOffsets, dragSession>>
    /\ UnchangedScene /\ UnchangedMisc

\* The tweens resetModelOrientation starts (setView('front') first).
ResetTweens(export) ==
    <<Tween("view", 0, 0, 4, FALSE),
      Tween("reset", Intermediate(mcQuat, 0), 0, 2, export),
      Tween("axes", 0, 0, 2, FALSE)>>

\* resetModelOrientation(): a click on the reset button.
ResetModelOrientation ==
    /\ UserEvent
    /\ modelLoaded
    /\ Len(tweens) + 3 <= MaxTweens
    /\ controlsEnabled' = FALSE
    /\ tweens' = tweens \o ResetTweens(FALSE)
    /\ turns' = NoTurns
    /\ panelAlert' = NoAlert
    /\ UNCHANGED customObjects
    /\ UNCHANGED <<coordFields, customAxesRotation, modelLoaded, plane>>
    /\ lastOp' = Op("resetModelOrientation", NoNode, Zero2, FALSE, FALSE)
    /\ UNCHANGED displayedFor
    /\ UNCHANGED <<material, originalMaterials, intersectedObject, coordPopupDisplay,
                   deleteButtonDisplay, isDragging,
                   pointerDownOnDraggable, dragOffset, position, baseQuat, mcQuat,
                   localPivotToBBoxCenterOffsets, staleOffsets, dragSession>>
    /\ UnchangedScene /\ UnchangedMisc

\* setModelBaseline()
SetModelBaseline ==
    LET w == [World EXCEPT !.baseQuat = GetWorldQuaternion(World, "model"),
                           !.mcQuat = 0]
    IN  /\ UserEvent
        /\ modelLoaded
        /\ baseQuat' = w.baseQuat
        /\ mcQuat' = 0
        /\ turns' = NoTurns
        /\ localPivotToBBoxCenterOffsets' = RecomputeOffsets(w, localPivotToBBoxCenterOffsets)
        /\ staleOffsets' = staleOffsets \ draggableObjects
        /\ panelAlert' = NoAlert
        /\ UNCHANGED customObjects
        /\ UNCHANGED <<coordFields, customAxesRotation, modelLoaded, plane>>
        /\ lastOp' = Op("setModelBaseline", NoNode, Zero2, FALSE, FALSE)
        /\ UNCHANGED displayedFor
        /\ UNCHANGED <<material, originalMaterials, intersectedObject, coordPopupDisplay,
                       deleteButtonDisplay, isDragging,
                       pointerDownOnDraggable, controlsEnabled, dragOffset, position,
                       tweens, dragSession>>
        /\ UnchangedScene /\ UnchangedMisc

\* What a frame of TWEEN.update reads and writes.
TickState == [mc |-> mcQuat, offs |-> localPivotToBBoxCenterOffsets,
              stale |-> staleOffsets, ctl |-> controlsEnabled, exp |-> exportPc,
              shown |-> displayedFor, axes |-> customAxesRotation, rest |-> <<>>]

\* One tween's update in a frame: its interpolated write while it runs, its
\* onComplete handler on its last frame.
StepTween(ts, t) ==
    IF t.left > 1
    THEN LET r == [ts EXCEPT !.rest = Append(@, [t EXCEPT !.left = @ - 1])]
         IN  IF t.kind \in {"model", "reset"}
             THEN [r EXCEPT !.mc = t.mid,
                            !.stale = IF t.mid # ts.mc THEN @ \cup draggableObjects ELSE @]
             ELSE r
    ELSE IF t.kind \in {"model", "reset"}
    THEN [ts EXCEPT !.mc = t.to,
                    !.offs = RecomputeOffsets([World EXCEPT !.mcQuat = t.to], ts.offs),
                    !.stale = @ \ draggableObjects,
                    !.shown = IF intersectedObject # NoNode
                                 /\ intersectedObject \in draggableObjects
                              THEN ShowShadowCoverage(intersectedObject,
                                       position[intersectedObject], baseQuat, t.to,
                                       lightDir)
                              ELSE @,
                    !.exp = IF t.export /\ ts.exp = "awaitReset"
                            THEN "awaitTimer" ELSE @]
    ELSE IF t.kind = "axes"
    THEN [ts EXCEPT !.axes = t.to, !.ctl = TRUE]
    ELSE [ts EXCEPT !.ctl = TRUE]

RECURSIVE RunTweens(_, _)
RunTweens(ts, seq) ==
    IF seq = <<>> THEN ts
    ELSE CHOOSE r \in {RunTweens(stepped, Tail(seq)) :
                          stepped \in {StepTween(ts, Head(seq))}} : TRUE

\* animate(): one frame of TWEEN.update() with tweens active.
TweenTick ==
    /\ tweens # <<>>
    /\ \E r \in {RunTweens(TickState, tweens)} :
           /\ mcQuat' = r.mc
           /\ localPivotToBBoxCenterOffsets' = r.offs
           /\ staleOffsets' = r.stale
           /\ controlsEnabled' = r.ctl
           /\ exportPc' = r.exp
           /\ tweens' = r.rest
           /\ displayedFor' = r.shown
           /\ customAxesRotation' = r.axes
    /\ panelAlert' = NoAlert
    /\ UNCHANGED customObjects
    /\ UNCHANGED <<coordFields, modelLoaded, plane, turns>>
    /\ lastOp' = Op("tweenUpdate", NoNode, Zero2, FALSE, FALSE)
    /\ UNCHANGED <<material, originalMaterials, intersectedObject, coordPopupDisplay,
                   deleteButtonDisplay, isDragging,
                   pointerDownOnDraggable, dragOffset, position, baseQuat,
                   lightDir, dragSession>>
    /\ UnchangedScene
    /\ UNCHANGED events
    /\ UnchangedLoad /\ UnchangedShadow /\ UnchangedFaces

\* ------------------------------------------------------ delete and add
\* A delete that empties the set.
DraggableObjectsCleared(obj) == {}

\* deleteSelectedObject: draggableObjects.delete(intersectedObject)
DraggableObjectsDelete(obj) == draggableObjects \ {obj}

\* A delete that leaves the cache of offsets as it is.
OffsetsKept(obj) == localPivotToBBoxCenterOffsets

\* deleteSelectedObject: localPivotToBBoxCenterOffsets.delete(intersectedObject)
OffsetsDelete(obj) ==
    [n \in (DOMAIN localPivotToBBoxCenterOffsets) \ {obj} |->
        localPivotToBBoxCenterOffsets[n]]

\* deleteSelectedObject(): confirmed is the answer to confirm().
DeleteSelectedObject(confirmed) ==
    LET obj == intersectedObject
        parentGroup == parent[obj]
        par1 == IF parentGroup # NoNode THEN [parent EXCEPT ![obj] = NoNode] ELSE parent
        emptyGroup == /\ parentGroup # NoNode
                      /\ parentGroup # "modelContainer"
                      /\ {c \in Nodes : par1[c] = parentGroup} = {}
                      /\ par1[parentGroup] # NoNode
        st == [HideCoordPopup(Sel) EXCEPT !.ctl = TRUE]
    IN  IF obj # NoNode /\ confirmed
        THEN /\ UserEvent
             /\ parent' = IF emptyGroup THEN [par1 EXCEPT ![parentGroup] = NoNode] ELSE par1
             /\ draggableObjects' = DraggableObjectsDelete(obj)
             /\ localPivotToBBoxCenterOffsets' = OffsetsDelete(obj)
             /\ staleOffsets' = staleOffsets \ {obj}
             /\ ApplySel(st)
             /\ dragSession' = NoNode
             /\ panelAlert' = NoAlert
             /\ UNCHANGED customObjects
             /\ UNCHANGED <<coordFields, customAxesRotation, modelLoaded, plane, turns>>
             /\ lastOp' = Op("delete", obj, Zero2, FALSE, FALSE)
             /\ displayedFor' = HiddenPopup
             /\ UNCHANGED <<geometry, position, baseQuat, mcQuat, tweens>>
             /\ UnchangedMisc
        ELSE /\ UserEvent
             /\ panelAlert' = NoAlert
             /\ UNCHANGED customObjects
             /\ UNCHANGED <<coordFields, customAxesRotation, modelLoaded, plane, turns>>
             /\ lastOp' = Op("delete", NoNode, Zero2, FALSE, FALSE)
             /\ UNCHANGED displayedFor
             /\ ApplySel(Sel)
             /\ UNCHANGED dragSession
             /\ UnchangedScene /\ UnchangedTransforms /\ UnchangedMisc

\* The custom panels created so far, and the name of the next one.
CreatedPanels == CustomPanels \cap DOMAIN geometry
NextPanel == CustomNames[Cardinality(CreatedPanels) + 1]

\* addObjectToScene(event): the submission of the add-panel form.
AddObjectToScene(f) ==
    LET verdict == ValidatePanel(f)
        new == NextPanel
        mesh == CustomObject(f, baseQuat)
        verts == {mesh.positions[i][1] : i \in 1..4}
        w == [World EXCEPT !.parent = [parent EXCEPT ![new] = "modelContainer"],
                           !.geometry = [m \in (DOMAIN geometry) \cup {new} |->
                                            IF m = new THEN verts ELSE geometry[m]]]
    IN  /\ UserEvent
        /\ Cardinality(CreatedPanels) < MaxPanels
        /\ panelAlert' = PanelAlert(f, baseQuat)
        /\ IF verdict = "accepted"
           THEN /\ parent' = w.parent
                /\ geometry' = w.geometry
                /\ customObjects' =
                       [m \in (DOMAIN customObjects) \cup {new} |->
                           IF m = new THEN mesh ELSE customObjects[m]]
                /\ draggableObjects' = draggableObjects \cup {new}
                /\ originalMaterials' =
                       [m \in (DOMAIN originalMaterials) \cup {new} |->
                           IF m = new THEN "panelMaterial" ELSE originalMaterials[m]]
                /\ localPivotToBBoxCenterOffsets' =
                       [m \in (DOMAIN localPivotToBBoxCenterOffsets) \cup {new} |->
                           IF m = new THEN CalculateLocalBBoxOffset(w, new)
                           ELSE localPivotToBBoxCenterOffsets[m]]
                /\ UNCHANGED <<coordFields, customAxesRotation, modelLoaded, plane, turns>>
                /\ lastOp' = Op("addPanel", new, Zero2, FALSE, FALSE)
           ELSE /\ UNCHANGED <<originalMaterials, localPivotToBBoxCenterOffsets,
                               customObjects>>
                /\ UnchangedScene
                /\ UNCHANGED <<coordFields, customAxesRotation, modelLoaded, plane, turns>>
                /\ lastOp' = Op("addPanel", NoNode, Zero2, FALSE, FALSE)
        /\ UNCHANGED <<material, intersectedObject, coordPopupDisplay,
                       deleteButtonDisplay, isDragging, pointerDownOnDraggable,
                       controlsEnabled, dragOffset, position, baseQuat, mcQuat, tweens,
                       staleOffsets, dragSession, displayedFor>>
        /\ UnchangedMisc

\* ------------------------------------------------------- sun and export
\* updateSunPosition(): a change of a field of the sun controls.
UpdateSunPosition(d) ==
    /\ UserEvent
    /\ lightDir' = d
    /\ panelAlert' = NoAlert
    /\ UNCHANGED customObjects
    /\ UNCHANGED <<coordFields, customAxesRotation, modelLoaded, plane, turns>>
    /\ lastOp' = Op("updateSunPosition", NoNode, Zero2, FALSE, FALSE)
    /\ displayedFor' =
           IF intersectedObject # NoNode /\ intersectedObject \in draggableObjects
           THEN ShowShadowCoverage(intersectedObject, position[intersectedObject],
                                   baseQuat, mcQuat, d)
           ELSE displayedFor
    /\ ApplySel(Sel)
    /\ UNCHANGED <<exportPc, dragSession>>
    /\ UnchangedScene /\ UnchangedTransforms

\* exportModel(), up to its first await: resetModelOrientation() is called,
\* and its promise awaited. Without the containers the executor returns
\* before it starts a tween, and nothing resolves the promise.
ExportModel ==
    /\ UserEvent
    /\ exportPc = "idle"
    /\ modelLoaded => Len(tweens) + 3 <= MaxTweens
    /\ exportPc' = "awaitReset"
    /\ controlsEnabled' = IF modelLoaded THEN FALSE ELSE controlsEnabled
    /\ tweens' = IF modelLoaded THEN tweens \o ResetTweens(TRUE) ELSE tweens
    /\ turns' = NoTurns
    /\ panelAlert' = NoAlert
    /\ UNCHANGED customObjects
    /\ UNCHANGED <<coordFields, customAxesRotation, modelLoaded, plane>>
    /\ lastOp' = Op("exportModel", NoNode, Zero2, FALSE, FALSE)
    /\ UNCHANGED displayedFor
    /\ UNCHANGED <<material, originalMaterials, intersectedObject, coordPopupDisplay,
                   deleteButtonDisplay, isDragging,
                   pointerDownOnDraggable, dragOffset, position, baseQuat, mcQuat,
                   localPivotToBBoxCenterOffsets, staleOffsets, dragSession, lightDir>>
    /\ UnchangedScene

\* What exporter.parse does: it hands over the data, calls the error
\* callback, or throws.
ExportResults == {"download", "exportFailed", "exportError"}

\* exportModel(), after the 500 ms timer: "No model to export." without
\* baseModelContainer, else the download of saved_model.glb, 'Model export
\* failed.' or 'An error occurred during export.'
ExportTimer(result) ==
    /\ exportPc = "awaitTimer"
    /\ exportPc' = "idle"
    /\ panelAlert' = NoAlert
    /\ UNCHANGED customObjects
    /\ UNCHANGED <<coordFields, customAxesRotation, modelLoaded, plane, turns>>
    /\ lastOp' = Op(IF modelLoaded THEN result ELSE "noModel", NoNode, Zero2, FALSE, FALSE)
    /\ UNCHANGED displayedFor
    /\ ApplySel(Sel)
    /\ UNCHANGED <<lightDir, dragSession>>
    /\ UnchangedScene /\ UnchangedTransforms
    /\ UNCHANGED events
    /\ UnchangedLoad /\ UnchangedShadow /\ UnchangedFaces

\* ------------------------------------------------- the interactive spec
\* The material a mesh carries when the scene is loaded or the mesh created:
\* the imported material, panelMaterial for a panel.
LoadedMaterial(m) == IF m \in {"S", "K"} THEN "standardMaterial" ELSE "panelMaterial"

\* The state when the load callback has finished.
InitScene ==
    /\ parent = [n \in Nodes |->
                    CASE n = "modelContainer" -> "baseModelContainer"
                      [] n = "model" -> "modelContainer"
                      [] n = "S" -> "model"
                      [] n = "K" -> "S"
                      [] n = "P1" -> "modelContainer"
                      [] OTHER -> NoNode]
    /\ material = [m \in Meshes |-> LoadedMaterial(m)]
    /\ originalMaterials = [m \in {"Orig"} |-> "standardMaterial"]
    /\ draggableObjects = {"P1"}
    /\ geometry = [m \in {"S", "K", "P1"} |->
                      CASE m = "S" -> SVertices
                        [] m = "K" -> KVertices
                        [] OTHER -> P1Vertices]
    /\ position = [m \in Meshes |-> IF m = "P1" THEN Vec(1, 0) ELSE Zero2]
    /\ baseQuat = 0
    /\ mcQuat = 0

InitProgram ==
    /\ InitScene
    /\ localPivotToBBoxCenterOffsets =
           [n \in {"P1"} |-> CalculateLocalBBoxOffset(World, n)]
    /\ intersectedObject = NoNode
    /\ coordPopupDisplay = "none"
    /\ deleteButtonDisplay = "none"
    /\ isDragging = FALSE
    /\ pointerDownOnDraggable = FALSE
    /\ controlsEnabled = TRUE
    /\ tweens = <<>>
    /\ dragOffset = Zero2
    /\ lightDir = 0
    /\ exportPc = "idle"
    /\ lastOp = Op("load", NoNode, Zero2, FALSE, FALSE)
    /\ dragSession = NoNode
    /\ staleOffsets = {}
    /\ events = 0
    /\ displayedFor = HiddenPopup
    /\ panelAlert = NoAlert
    /\ customObjects = <<>>
    /\ coordFields = <<0, 0>>
    /\ customAxesRotation = 0
    /\ modelLoaded = TRUE
    /\ plane = DefaultPlane
    /\ turns = NoTurns
    /\ nodeKind = <<>>
    /\ is2DPanel = {}
    /\ bbox = <<>>
    /\ objectsToProcessForDraggability = <<>>
    /\ processedObjects = {}
    /\ classifierPc = [phase |-> "done", index |-> 0]
    /\ inputParent = <<>>
    /\ shadowPc = "idle"
    /\ sampleIndex = 0
    /\ shadowedSamples = 0
    /\ intersects = <<>>
    /\ isInShadow = FALSE
    /\ sampledObject = NoNode
    /\ helperInScene = FALSE
    /\ hitObjects = <<>>
    /\ castingRays = 0
    /\ coverage = 0
    /\ warnings = <<>>

Init == InitProgram /\ FacesIdle

Next ==
    \/ \E hit \in ClickableMeshes \cup {NoNode}, grab \in GrabOffsets :
           CanvasPointerDown(hit, grab, FrontView)
    \/ OutsidePointerDown
    \/ OnPointerUp
    \/ \E b \in BOOLEAN, m \in BOOLEAN, h \in BOOLEAN, X \in PlanePoints :
           OnPointerMove(b, m, h, X)
    \/ \E numeric \in BOOLEAN, P \in CoordInputs : OnCoordInputChange(numeric, P)
    \/ \E angle \in RotationAngles : RotateModel(angle)
    \/ ResetModelOrientation
    \/ SetModelBaseline
    \/ TweenTick
    \/ \E c \in BOOLEAN : DeleteSelectedObject(c)
    \/ \E f \in PanelForms : AddObjectToScene(f)
    \/ \E d \in LightDirs : UpdateSunPosition(d)
    \/ ExportModel
    \/ \E result \in ExportResults : ExportTimer(result)

Spec == Init /\ [][Next]_vars

\* ------------------------------------------------- the add-panel validator

\* ------------------------------------------------- drags in every view
\* Pointer sessions with the camera along any axis, over a model that the
\* rotate buttons turn.
DragSpec ==
    Init /\ [][\/ (\E hit \in ClickableMeshes \cup {NoNode}, grab \in GrabOffsets,
                        normal \in PlaneNormals :
                         CanvasPointerDown(hit, grab, normal))
               \/ (\E b \in BOOLEAN, m \in BOOLEAN, h \in BOOLEAN, X \in PlanePoints :
                         OnPointerMove(b, m, h, X))
               \/ OnPointerUp
               \/ (\E angle \in RotationAngles : RotateModel(angle))
               \/ TweenTick]_vars

\* ------------------------------------------------- export before and after load

\* The state when init() has returned and the load callback has not run
\* (or the error callback has): no container, no model, nothing draggable.
Unloaded ==
    /\ modelLoaded = FALSE
    /\ plane = DefaultPlane
    /\ parent = [n \in Nodes |-> NoNode]
    /\ material = <<>>
    /\ originalMaterials = <<>>
    /\ draggableObjects = {}
    /\ geometry = <<>>
    /\ position = <<>>
    /\ baseQuat = 0
    /\ mcQuat = 0
    /\ localPivotToBBoxCenterOffsets = <<>>
    /\ intersectedObject = NoNode
    /\ coordPopupDisplay = "none"
    /\ deleteButtonDisplay = "none"
    /\ isDragging = FALSE
    /\ pointerDownOnDraggable = FALSE
    /\ controlsEnabled = TRUE
    /\ tweens = <<>>
    /\ dragOffset = Zero2
    /\ lightDir = 0
    /\ exportPc = "idle"
    /\ lastOp = Op("init", NoNode, Zero2, FALSE, FALSE)
    /\ dragSession = NoNode
    /\ staleOffsets = {}
    /\ events = 0
    /\ displayedFor = HiddenPopup
    /\ panelAlert = NoAlert
    /\ customObjects = <<>>
    /\ coordFields = <<0, 0>>
    /\ customAxesRotation = 0
    /\ turns = NoTurns
    /\ nodeKind = <<>>
    /\ is2DPanel = {}
    /\ bbox = <<>>
    /\ objectsToProcessForDraggability = <<>>
    /\ processedObjects = {}
    /\ classifierPc = [phase |-> "start", index |-> 0]
    /\ inputParent = <<>>
    /\ shadowPc = "idle"
    /\ sampleIndex = 0
    /\ shadowedSamples = 0
    /\ intersects = <<>>
    /\ isInShadow = FALSE
    /\ sampledObject = NoNode
    /\ helperInScene = FALSE
    /\ hitObjects = <<>>
    /\ castingRays = 0
    /\ coverage = 0
    /\ warnings = <<>>
    /\ meshTriangles = <<>>
    /\ faceGroups = <<>>
    /\ facesPc = "idle"
    /\ FacesIdle

ExportInit == Init \/ Unloaded

\* The export, rotate and reset buttons, the frames of animate() and the
\* timer of exportModel.
ExportNext ==
    \/ ExportModel
    \/ \E result \in ExportResults : ExportTimer(result)
    \/ TweenTick
    \/ \E angle \in RotationAngles : RotateModel(angle)
    \/ ResetModelOrientation

\* animate() reschedules itself with requestAnimationFrame and calls
\* TWEEN.update() in every frame, and a timer set with setTimeout fires:
\* neither stays enabled for ever without running.
ExportSpec ==
    /\ ExportInit
    /\ [][ExportNext]_vars
    /\ WF_vars(TweenTick)
    /\ WF_vars(\E result \in ExportResults : ExportTimer(result))

\* Submissions of the form: fields that do not parse, collinear and
\* coincident points, slivers on both sides of COLLINEARITY_EPSILON_SQ, a
\* fourth point off the plane by more and by less than EPSILON, a fourth
\* point on a line through two others, a concave outline, an upright
\* plane, and the corners of a square typed in every order.
ValidatorForms ==
    LET EntryOrders == {s \in [1..4 -> 1..4] : \A i, j \in 1..4 : s[i] = s[j] => i = j}
        c == <<Units(0, 0, 0), Units(1, 0, 0), Units(1, 1, 0), Units(0, 1, 0)>>
    IN
    PanelForms \cup {Form(TRUE, c[s[1]], c[s[2]], c[s[3]], c[s[4]]) : s \in EntryOrders} \cup
    { Form(TRUE, Units(0, 0, 0), Units(0, 0, 0), Units(1, 0, 0), Units(0, 1, 0)),
      Form(TRUE, Units(0, 0, 0), Units(1, 0, 0), Units(2, 0, 0), Units(3, 0, 0)),
      Form(TRUE, Units(0, 0, 0), Units(1, 0, 0), Units(2, 0, 0), Units(0, 1, 5)),
      Form(TRUE, <<0, 0, 0>>, <<2, 0, 0>>, <<0, 1, 0>>, <<16, 16, 0>>),
      Form(TRUE, <<0, 0, 0>>, <<3, 0, 0>>, <<0, 1, 0>>, <<3, 1, 0>>),
      Form(TRUE, Units(0, 0, 0), Units(1, 0, 0), Units(1, 1, 0), Units(0, 1, 5)),
      Form(TRUE, Units(0, 0, 0), Units(1, 0, 0), Units(1, 1, 0), Units(0, 0, 0)),
      Form(TRUE, <<0, 0, 0>>, <<0, 7, 0>>, <<1, 0, 0>>, <<2, 0, 1>>),
      Form(TRUE, <<0, 0, 0>>, <<16, 0, 0>>, <<0, 16, 1>>, <<16, 2, 0>>),
      Form(TRUE, <<0, 0, 0>>, <<16, 0, 0>>, <<0, 16, 1>>, <<16, 3, 0>>),
      Form(TRUE, Units(0, 0, 0), Units(2, 1, 0), Units(4, 0, 0), Units(2, 3, 0)),
      Form(TRUE, Units(0, 0, 0), Units(0, 1, 0), Units(0, 0, 1), Units(1, 1, 1)) }

ValidatorNext ==
    \/ \E angle \in RotationAngles : RotateModel(angle)
    \/ TweenTick
    \/ SetModelBaseline
    \/ \E f \in ValidatorForms : AddObjectToScene(f)

ValidatorSpec == Init /\ [][ValidatorNext]_vars


\* ====================================================================
\* Properties of the interactive program
\* ====================================================================

\* C1: at most one node is selected, and every mesh outside the subtree of
\* the currently selected node (every mesh, when nothing is selected)
\* carries the material it had before any selection: no highlight is left
\* behind by a deselection or a change of selection.
C1_MaterialsRestoredOnDeselect ==
    \A m \in Meshes :
        (intersectedObject = NoNode \/ m \notin Subtree(parent, intersectedObject))
            => material[m] = LoadedMaterial(m)

\* C2: a pointer-move writes a position only inside a drag session (a
\* pointer-down over a draggable proxy with no pointer-up and no deselection
\* since), on the selected node, which is that proxy, and with the pointer
\* ray meeting the drag plane; it writes that proxy's position only, and a
\* pointer-move that does not write leaves every position unchanged.
C2_MoveWritesOnlyInDragSession ==
    [][lastOp'.name = "pointerMove" =>
          IF lastOp'.wrote
          THEN /\ dragSession # NoNode
               /\ dragSession = intersectedObject
               /\ intersectedObject \in draggableObjects
               /\ lastOp'.planeHit
               /\ lastOp'.node = dragSession
               /\ \A n \in DOMAIN position :
                      n # dragSession => position'[n] = position[n]
          ELSE position' = position]_vars

\* C2 witness: a drag has just moved the proxy of the open session.
C2_DragWroteProxy ==
    /\ lastOp.name = "pointerMove"
    /\ lastOp.wrote
    /\ dragSession = lastOp.node
    /\ position[lastOp.node] # Vec(1, 0)

\* C3: whenever a position write has just read the cached offset of a
\* proxy, that offset was recomputed after the last change of the proxy's
\* world orientation.
C3_CachedOffsetFreshAtWrite ==
    lastOp.wrote => lastOp.node \notin staleOffsets

\* 1000 * (a + b * sqrt 2) lies between these two integers
\* (1414/1000 < sqrt 2 < 1415/1000).
Lower1000(u) == 1000 * u[1] + (IF u[2] >= 0 THEN 1414 ELSE 1415) * u[2]
Upper1000(u) == 1000 * u[1] + (IF u[2] >= 0 THEN 1415 ELSE 1414) * u[2]

\* |u| is certainly more than 1e-3 model units.
Exceeds1e3(u) == Lower1000(u) > Scale \/ Upper1000(u) < -Scale

\* C4: right after a position write that sets the bounding-box centre of a
\* proxy to the world point P, the bounding-box centre read back is P within
\* 1e-3 in each coordinate.
C4_SetThenGetRoundTrips ==
    lastOp.wrote =>
        LET d == VSub(BBoxCenter(World, lastOp.node), lastOp.P)
        IN  ~Exceeds1e3(d[1]) /\ ~Exceeds1e3(d[2])

\* C9: draggableObjects changes only by an accepted add-panel submission,
\* which adds exactly the new panel, or by a confirmed delete of the selected
\* object, which removes exactly that object; every other step leaves it
\* unchanged.
C9_DraggableObjectsFrame ==
    [][/\ (lastOp'.name = "addPanel" /\ lastOp'.node # NoNode)
            => /\ lastOp'.node \notin draggableObjects
               /\ draggableObjects' = draggableObjects \cup {lastOp'.node}
       /\ (lastOp'.name = "delete" /\ lastOp'.node # NoNode)
            => /\ lastOp'.node = intersectedObject
               /\ draggableObjects' = draggableObjects \ {intersectedObject}
       /\ ~(lastOp'.name \in {"addPanel", "delete"} /\ lastOp'.node # NoNode)
            => draggableObjects' = draggableObjects]_vars

\* C9 witness: a panel has been added and then the loaded proxy deleted, so
\* that the set holds the added panel only.
C9_AddedThenDeleted ==
    /\ lastOp.name = "delete"
    /\ lastOp.node = "P1"
    /\ CreatedPanels # {}
    /\ draggableObjects = CreatedPanels


\* ====================================================================
\* The load-time classifier: identifyDraggableObjectsByDimension
\* ====================================================================
\* Lengths are in units of 0.05 model units.  The world box of a mesh is
\* given by its three extents; every box has its minimum corner at the
\* origin, so the box of a node is the componentwise maximum over the meshes
\* of its subtree.

\* DRAGGABLE_MIN_DIMENSION = 0.1 and DRAGGABLE_MAX_DIMENSION = 1.2
DraggableMinDimension == 2
DraggableMaxDimension == 24

\* The imported hierarchy: modelContainer > model > {Big, U}; U holds the
\* meshes A and B and the node H, H holds the mesh C (B may sit under H or
\* be absent, H may be absent).  Big is the structure that makes the model
\* 10 units long after the import-time rescale.
LoadNodes == {"modelContainer", "model", "Big", "U", "A", "B", "H", "C"}
\* The order of the children arrays.
ChildRank == <<"model", "Big", "U", "A", "B", "H", "C">>

Max2(a, b) == IF a >= b THEN a ELSE b
Min2(a, b) == IF a <= b THEN a ELSE b

\* Box3.makeEmpty(): the box of no point at all.
EmptyBox == <<-1, -1, -1>>

\* Box3.setFromObject(object, true), as the extents of the box.
SetFromObject(par, n) ==
    LET ms == {m \in Subtree(par, n) : nodeKind[m] = "mesh"}
    IN  IF ms = {} THEN EmptyBox
        ELSE <<SetMaxInt({bbox[m][1] : m \in ms}),
               SetMaxInt({bbox[m][2] : m \in ms}),
               SetMaxInt({bbox[m][3] : m \in ms})>>

\* _tempBBox.isEmpty() || (max.x === min.x && max.y === min.y && max.z === min.z)
IsEmptyOrPoint(box) == box = EmptyBox \/ box = <<0, 0, 0>>

\* A check that forgets the lower threshold.
MeetsMaxThresholdOnly(size) ==
    Max2(size[1], Max2(size[2], size[3])) <= DraggableMaxDimension

\* maxDim <= maxDimensionThreshold && minDim >= minDimensionThreshold
MeetsThresholds(size) ==
    /\ Max2(size[1], Max2(size[2], size[3])) <= DraggableMaxDimension
    /\ Min2(size[1], Min2(size[2], size[3])) >= DraggableMinDimension

\* containsMesh(object)
ContainsMesh(par, n) == \E m \in Subtree(par, n) : nodeKind[m] = "mesh"

\* A kind test that lets every node through.
AnyKind(n) == TRUE

\* object.isMesh || object.isGroup
IsMeshOrGroup(n) == nodeKind[n] \in {"mesh", "group"}

\* Object3D.traverse: the node, then its children's subtrees in order.
RECURSIVE Traverse(_, _)
RECURSIVE TraverseAll(_, _)
Traverse(par, n) ==
    <<n>> \o TraverseAll(par, SelectSeq(ChildRank, LAMBDA c : par[c] = n))
TraverseAll(par, cs) ==
    IF cs = <<>> THEN <<>>
    ELSE Traverse(par, Head(cs)) \o TraverseAll(par, Tail(cs))

\* The first pass's callback: the object is pushed.
IsPushed(par, rootObject, object) ==
    IF object = rootObject \/ par[object] = NoNode THEN FALSE
    ELSE IF nodeKind[object] = "mesh" /\ object \in is2DPanel THEN TRUE
    ELSE IF ~IsMeshOrGroup(object) THEN FALSE
    ELSE IF ~ContainsMesh(par, object) THEN FALSE
    ELSE IF IsEmptyOrPoint(SetFromObject(par, object)) THEN FALSE
    ELSE MeetsThresholds(SetFromObject(par, object))

\* The second pass's climb from the candidate to its highest valid ancestor.
RECURSIVE HighestValidAncestor(_, _, _, _)
HighestValidAncestor(par, rootObject, highest, current) ==
    IF current = NoNode \/ current = rootObject THEN highest
    ELSE IF IsEmptyOrPoint(SetFromObject(par, current)) THEN highest
    ELSE IF MeetsThresholds(SetFromObject(par, current))
         THEN HighestValidAncestor(par, rootObject, current, par[current])
         ELSE highest

\* size.x * size.y * size.z of a mesh's own geometry box
Volume(m) == bbox[m][1] * bbox[m][2] * bbox[m][3]

\* A getPrimaryMeshInGroup that takes the last of the smallest meshes.
RECURSIVE LastSmallestMesh(_, _)
LastSmallestMesh(seq, best) ==
    IF seq = <<>> THEN best
    ELSE LET c == Head(seq)
         IN  IF nodeKind[c] = "mesh" /\ (best = NoNode \/ Volume(c) <= Volume(best))
             THEN LastSmallestMesh(Tail(seq), c)
             ELSE LastSmallestMesh(Tail(seq), best)

\* getPrimaryMeshInGroup(group): the first mesh of the traversal with the
\* smallest volume (NoNode: the group has no mesh).
RECURSIVE SmallestMesh(_, _)
SmallestMesh(seq, best) ==
    IF seq = <<>> THEN best
    ELSE LET c == Head(seq)
         IN  IF nodeKind[c] = "mesh" /\ (best = NoNode \/ Volume(c) < Volume(best))
             THEN SmallestMesh(Tail(seq), c)
             ELSE SmallestMesh(Tail(seq), best)

GetPrimaryMeshInGroup(par, group) == SmallestMesh(Traverse(par, group), NoNode)

UnchangedInteractive ==
    UNCHANGED <<material, originalMaterials, localPivotToBBoxCenterOffsets,
                intersectedObject, coordPopupDisplay,
                deleteButtonDisplay, isDragging, pointerDownOnDraggable,
                controlsEnabled, position, geometry, baseQuat, mcQuat, tweens,
                dragOffset, lightDir, exportPc, lastOp, dragSession, staleOffsets,
                events, displayedFor, panelAlert, customObjects, coordFields,
                customAxesRotation, modelLoaded, plane, turns>>

\* identifyDraggableObjectsByDimension(modelContainer, ...): the set is
\* cleared and the first pass collects the candidates.
FirstPass ==
    /\ classifierPc.phase = "start"
    /\ draggableObjects' = {}
    /\ objectsToProcessForDraggability' =
           SelectSeq(Traverse(parent, "modelContainer"),
                     LAMBDA o : IsPushed(parent, "modelContainer", o))
    /\ processedObjects' = {}
    /\ classifierPc' = [phase |-> "secondPass", index |-> 1]
    /\ UNCHANGED <<parent, nodeKind, is2DPanel, bbox, inputParent>>
    /\ UnchangedInteractive /\ UnchangedShadow /\ UnchangedFaces

\* One iteration of the second pass's forEach.
SecondPassStep ==
    /\ classifierPc.phase = "secondPass"
    /\ classifierPc.index <= Len(objectsToProcessForDraggability)
    /\ LET object == objectsToProcessForDraggability[classifierPc.index]
           hva == HighestValidAncestor(parent, "modelContainer", object, parent[object])
           primaryMesh == GetPrimaryMeshInGroup(parent, hva)
           meshesToRemove == {c \in Subtree(parent, hva) :
                                 nodeKind[c] = "mesh" /\ c # primaryMesh /\ parent[c] = hva}
           par1 == IF primaryMesh # NoNode
                   THEN [n \in DOMAIN parent |->
                            IF n \in meshesToRemove THEN NoNode ELSE parent[n]]
                   ELSE parent
       IN  IF object \in processedObjects
           THEN UNCHANGED <<parent, draggableObjects, processedObjects>>
           ELSE IF nodeKind[object] = "mesh" /\ object \in is2DPanel
           THEN /\ draggableObjects' = draggableObjects \cup {object}
                /\ processedObjects' = processedObjects \cup {object}
                /\ UNCHANGED parent
           ELSE /\ draggableObjects' = IF primaryMesh # NoNode
                                       THEN draggableObjects \cup {primaryMesh}
                                       ELSE draggableObjects
                /\ parent' = par1
                /\ processedObjects' = processedObjects \cup Subtree(par1, hva)
    /\ classifierPc' = [classifierPc EXCEPT !.index = @ + 1]
    /\ UNCHANGED <<objectsToProcessForDraggability, nodeKind, is2DPanel, bbox,
                   inputParent>>
    /\ UnchangedInteractive /\ UnchangedShadow /\ UnchangedFaces

\* The forEach has run out: the classifier returns.
ClassifierReturns ==
    /\ classifierPc.phase = "secondPass"
    /\ classifierPc.index > Len(objectsToProcessForDraggability)
    /\ classifierPc' = [classifierPc EXCEPT !.phase = "done"]
    /\ UNCHANGED <<parent, draggableObjects, objectsToProcessForDraggability,
                   processedObjects, nodeKind, is2DPanel, bbox, inputParent>>
    /\ UnchangedInteractive /\ UnchangedShadow /\ UnchangedFaces

\* The imported trees the classifier is run on.
LoadParents ==
    {[n \in LoadNodes |->
         CASE n = "modelContainer" -> NoNode
           [] n = "model" -> "modelContainer"
           [] n \in {"Big", "U"} -> "model"
           [] n = "A" -> "U"
           [] n = "B" -> pb
           [] n = "H" -> ph
           [] OTHER -> "H"] : pb \in {"U", "H", NoNode}, ph \in {"U", NoNode}}

LoadKinds ==
    {[n \in LoadNodes |->
         CASE n \in {"modelContainer", "model"} -> "group"
           [] n = "U" -> ku
           [] n = "H" -> kh
           [] OTHER -> "mesh"] :
        ku \in {"group", "object3d", "mesh"}, kh \in {"group", "object3d"}}

\* Extents of the meshes' boxes: a point, (0.05, 0.05, 0.05), (0.3, 0.3, 0.05),
\* (0.3, 0.3, 0.1), (1.5, 0.3, 0.3), ...
LoadBoxes ==
    {[n \in {"Big", "U", "A", "B", "C"} |->
         CASE n = "Big" -> <<200, 4, 4>>
           [] n = "U" -> <<6, 6, 2>>
           [] n = "A" -> ba
           [] n = "B" -> bb
           [] OTHER -> bc] :
        ba \in {<<0, 0, 0>>, <<1, 1, 1>>, <<6, 6, 1>>, <<6, 6, 2>>, <<30, 6, 6>>},
        bb \in {<<6, 6, 1>>, <<6, 6, 3>>, <<8, 8, 8>>},
        bc \in {<<6, 6, 1>>, <<4, 4, 4>>}}

\* The state when the load callback calls the classifier.
ClassifierInit ==
    /\ parent \in LoadParents
    /\ inputParent = parent
    /\ nodeKind \in LoadKinds
    /\ is2DPanel \in SUBSET {"A", "B", "C"}
    /\ bbox \in LoadBoxes
    /\ draggableObjects = {}
    /\ objectsToProcessForDraggability = <<>>
    /\ processedObjects = {}
    /\ classifierPc = [phase |-> "start", index |-> 0]
    /\ material = <<>>
    /\ originalMaterials = <<>>
    /\ localPivotToBBoxCenterOffsets = <<>>
    /\ intersectedObject = NoNode
    /\ coordPopupDisplay = "none"
    /\ deleteButtonDisplay = "none"
    /\ isDragging = FALSE
    /\ pointerDownOnDraggable = FALSE
    /\ controlsEnabled = TRUE
    /\ position = <<>>
    /\ geometry = <<>>
    /\ baseQuat = 0
    /\ mcQuat = 0
    /\ tweens = <<>>
    /\ dragOffset = Zero2
    /\ lightDir = 0
    /\ exportPc = "idle"
    /\ lastOp = Op("none", NoNode, Zero2, FALSE, FALSE)
    /\ dragSession = NoNode
    /\ staleOffsets = {}
    /\ events = 0
    /\ displayedFor = HiddenPopup
    /\ panelAlert = NoAlert
    /\ customObjects = <<>>
    /\ coordFields = <<0, 0>>
    /\ customAxesRotation = 0
    /\ modelLoaded = TRUE
    /\ plane = DefaultPlane
    /\ turns = NoTurns
    /\ FacesIdle
    /\ shadowPc = "idle"
    /\ sampleIndex = 0
    /\ shadowedSamples = 0
    /\ intersects = <<>>
    /\ isInShadow = FALSE
    /\ sampledObject = NoNode
    /\ helperInScene = FALSE
    /\ hitObjects = <<>>
    /\ castingRays = 0
    /\ coverage = 0
    /\ warnings = <<>>

ClassifierNext == FirstPass \/ SecondPassStep \/ ClassifierReturns

ClassifierSpec == ClassifierInit /\ [][ClassifierNext]_vars

\* ------------------------------------------- properties of the classifier
Finished == classifierPc.phase = "done"

\* The nodes and meshes of the imported tree, below the classified root.
InputNodes == Subtree(inputParent, "modelContainer") \ {"modelContainer"}
InputMeshes == {m \in InputNodes : nodeKind[m] = "mesh"}

\* The box a node had in the imported tree, and whether it is a real box
\* with largest extent <= 1.2 and smallest extent >= 0.1.
InputSize(n) == SetFromObject(inputParent, n)
Valid(n) ==
    /\ InputSize(n) \notin {EmptyBox, <<0, 0, 0>>}
    /\ \A i \in 1..3 : InputSize(n)[i] <= 24 /\ InputSize(n)[i] >= 2

\* The resolved rigid-unit roots: the nodes that meet the thresholds and
\* whose parent is the classified root or does not meet them.
UnitRoots ==
    {r \in InputNodes :
        /\ Valid(r)
        /\ (inputParent[r] = "modelContainer" \/ ~Valid(inputParent[r]))}

\* C5: when the classifier has finished, the subtree of a resolved
\* rigid-unit root holds at most one member of draggableObjects.
C5_OneProxyPerRigidUnit ==
    Finished =>
        \A r \in UnitRoots :
            Cardinality(draggableObjects \cap Subtree(inputParent, r)) <= 1

\* C6: after the first pass a node below the root that is not flagged as a
\* 2-D panel is a candidate exactly when it is a mesh or a group, its subtree
\* contains a mesh, its box is neither empty nor a single point, its largest
\* extent is at most 1.2 and its smallest at least 0.1; a node with extents
\* (0.05, 0.05, 0.05) and a node with largest extent 1.5 are no candidates.
InList(n) == \E i \in 1..Len(objectsToProcessForDraggability) :
                 objectsToProcessForDraggability[i] = n
C6_FirstPassCandidates ==
    classifierPc.phase # "start" =>
        \A n \in InputNodes \ is2DPanel :
            /\ InList(n) <=>
                  /\ nodeKind[n] \in {"mesh", "group"}
                  /\ \E m \in Subtree(inputParent, n) : nodeKind[m] = "mesh"
                  /\ Valid(n)
            /\ (InputSize(n) = <<1, 1, 1>> => ~InList(n))
            /\ ((\E i \in 1..3 : InputSize(n)[i] = 30) => ~InList(n))

\* C6 witness: the first pass has run on a tree that holds a candidate, a
\* node of extents (0.05, 0.05, 0.05) and a node of largest extent 1.5, none
\* of them a 2-D panel.
C6_FirstPassRan ==
    /\ classifierPc = [phase |-> "secondPass", index |-> 1]
    /\ is2DPanel = {}
    /\ InList("B")
    /\ inputParent["B"] = "H" /\ inputParent["H"] = "U"
    /\ bbox["C"] = <<4, 4, 4>>
    /\ bbox["A"] \in {<<1, 1, 1>>, <<30, 6, 6>>}

\* A rigid unit of its own: a mesh or group with a mesh in it, no 2-D panel
\* in it, and no ancestor below the root that meets the thresholds.
RECURSIVE NoValidAncestor(_)
NoValidAncestor(n) ==
    LET p == inputParent[n]
    IN  p \in {NoNode, "modelContainer"} \/ (~Valid(p) /\ NoValidAncestor(p))

OwnUnit(r) ==
    /\ nodeKind[r] \in {"mesh", "group"}
    /\ \E m \in Subtree(inputParent, r) : nodeKind[m] = "mesh"
    /\ Subtree(inputParent, r) \cap is2DPanel = {}
    /\ NoValidAncestor(r)

\* C7 as stated: when the classifier has finished, the proxy mesh of a rigid
\* unit with extents (0.3, 0.3, 0.05) is a member of draggableObjects.
C7_ThinUnitIncluded ==
    Finished =>
        \A r \in InputNodes :
            (OwnUnit(r) /\ InputSize(r) = <<6, 6, 1>>)
                => GetPrimaryMeshInGroup(inputParent, r) \in draggableObjects

\* C7 amended: when the classifier has finished, no mesh of a rigid unit with
\* extents (0.3, 0.3, 0.05) is a member of draggableObjects (its smallest
\* extent is below 0.1), and the proxy mesh of a rigid unit with extents
\* (0.3, 0.3, 0.1) is a member.
C7_ThinUnitExcluded ==
    Finished =>
        \A r \in InputNodes :
            OwnUnit(r) =>
                /\ InputSize(r) = <<6, 6, 1>>
                       => draggableObjects \cap Subtree(inputParent, r) = {}
                /\ InputSize(r) = <<6, 6, 2>>
                       => GetPrimaryMeshInGroup(inputParent, r) \in draggableObjects

\* C7 witness: the classifier has finished on a tree where the group U is a
\* rigid unit of extents (0.3, 0.3, 0.05) and none of its meshes is draggable.
C7_ThinUnitClassified ==
    /\ Finished
    /\ nodeKind["U"] = "group"
    /\ OwnUnit("U")
    /\ InputSize("U") = <<6, 6, 1>>
    /\ draggableObjects \cap Subtree(inputParent, "U") = {}

\* C8: when the classifier has finished, every mesh of the imported tree
\* that is flagged as a 2-D panel is a member of draggableObjects and is
\* still attached below the classified root.
C8_PanelsDraggableAndAttached ==
    Finished =>
        \A m \in InputMeshes \cap is2DPanel :
            m \in draggableObjects /\ IsInSubtree(parent, m, "modelContainer")


\* ====================================================================
\* The shadow sampler: calculateShadowCoverage
\* ====================================================================
\* const totalSamples = 1000
TotalSamples == 1000

\* scene.children: the lights, the light pivot, the light's target, the
\* container of the model and, while the sun controls are open, the helper.
SceneChildren ==
    {"ambientLight", "hemisphereLight", "lightPivot", "directionalLightTarget",
     "baseModelContainer"}
        \cup (IF helperInScene THEN {"directionalLightHelper"} ELSE {})

\* The nodes below a child of the scene, the child included:
\* lightPivot.add(directionalLight), and the containers of the model.
SceneSubtree(c) ==
    CASE c = "lightPivot" -> {"lightPivot", "directionalLight"}
      [] c \in Nodes -> Subtree(parent, c)
      [] OTHER -> {c}

\* The objects handed to intersectObjects(..., true): the children of the
\* scene other than object and directionalLight, with all their descendants.
RayTargets(object) ==
    UNION {SceneSubtree(c) :
              c \in {ch \in SceneChildren :
                        ch # object /\ ch # "directionalLight"}}

\* The nodes a ray can hit: the attached meshes and the lines of the helper.
Raycastable == {m \in Meshes : parent[m] # NoNode} \cup {"directionalLightHelper"}

\* intersect.object.castShadow: set on every mesh of the model and on every
\* panel, left at its default on the helper.
CastShadow(n) == n \in Meshes

RECURSIVE CastFlags(_)
CastFlags(objs) ==
    IF objs = <<>> THEN <<>>
    ELSE <<CastShadow(Head(objs))>> \o CastFlags(Tail(objs))

\* What raycasterForShadow.intersectObjects can return for one sample: the
\* objects hit along the ray, nearest first.  A proxy whose outline is not
\* exactly flat can be hit by a ray that leaves its own surface.
HitObjectLists(object) ==
    LET targets == RayTargets(object) \cap Raycastable
    IN  {h \in {<<>>, <<object>>, <<"directionalLightHelper", "S">>} :
            \A j \in 1..Len(h) : h[j] \in targets}

\* A test of the nearest hit only.
NearestHitCastsShadow(hits) == hits # <<>> /\ Head(hits)

\* The loop over intersects: isInShadow when it is left.
RECURSIVE AnyHitCastsShadow(_)
AnyHitCastsShadow(hits) ==
    IF hits = <<>> THEN FALSE
    ELSE IF Head(hits) THEN TRUE
    ELSE AnyHitCastsShadow(Tail(hits))

\* ((shadowedSamples / totalSamples) * 100).toFixed(1), in tenths of a
\* percent: the nearest tenth.
ToFixed1(num, den) == (2 * 1000 * num + den) \div (2 * den)

UnchangedProgram ==
    /\ UNCHANGED <<parent, draggableObjects>>
    /\ UnchangedInteractive /\ UnchangedLoad /\ UnchangedFaces

\* The pull-out tab of the sun controls is clicked: the helper is added to
\* the scene or removed from it.  No handler runs while the sampling loop
\* does.
ToggleSunControls ==
    /\ shadowPc # "sampling"
    /\ helperInScene' = ~helperInScene
    /\ UNCHANGED <<shadowPc, sampleIndex, shadowedSamples, intersects,
                   isInShadow, sampledObject, hitObjects, castingRays, coverage,
                   warnings>>
    /\ UnchangedProgram

\* calculateShadowCoverage(object) is entered for a mesh with a geometry.
CoverageStarts(object) ==
    /\ shadowPc = "idle"
    /\ parent[object] # NoNode
    /\ shadowPc' = "sampling"
    /\ sampledObject' = object
    /\ sampleIndex' = 0
    /\ shadowedSamples' = 0
    /\ castingRays' = 0
    /\ UNCHANGED <<intersects, isInShadow, helperInScene, hitObjects, coverage,
                   warnings>>
    /\ UnchangedProgram

\* One iteration of the sampling loop.
SampleRay(objs) ==
    /\ shadowPc = "sampling"
    /\ sampleIndex < TotalSamples
    /\ hitObjects' = objs
    /\ intersects' = CastFlags(objs)
    /\ isInShadow' = AnyHitCastsShadow(CastFlags(objs))
    /\ shadowedSamples' = IF AnyHitCastsShadow(CastFlags(objs))
                          THEN shadowedSamples + 1 ELSE shadowedSamples
    /\ castingRays' = IF \E j \in 1..Len(objs) : CastShadow(objs[j])
                      THEN castingRays + 1 ELSE castingRays
    /\ sampleIndex' = sampleIndex + 1
    /\ UNCHANGED <<shadowPc, sampledObject, helperInScene, coverage, warnings>>
    /\ UnchangedProgram

\* A loop that can be left before the last sample.
CoverageReturnsEarly ==
    /\ shadowPc = "sampling"
    /\ sampleIndex >= 1
    /\ shadowPc' = "done"
    /\ coverage' = ToFixed1(shadowedSamples, TotalSamples)
    /\ UNCHANGED <<sampleIndex, shadowedSamples, intersects, isInShadow,
                   sampledObject, helperInScene, hitObjects, castingRays, warnings>>
    /\ UnchangedProgram

\* The loop is left and the percentage returned.
CoverageReturns ==
    /\ shadowPc = "sampling"
    /\ sampleIndex >= TotalSamples
    /\ shadowPc' = "done"
    /\ coverage' = ToFixed1(shadowedSamples, TotalSamples)
    /\ UNCHANGED <<sampleIndex, shadowedSamples, intersects, isInShadow,
                   sampledObject, helperInScene, hitObjects, castingRays, warnings>>
    /\ UnchangedProgram

ShadowNext ==
    \/ ToggleSunControls
    \/ \E object \in draggableObjects : CoverageStarts(object)
    \/ \E objs \in HitObjectLists(sampledObject) : SampleRay(objs)
    \/ CoverageReturns

ShadowSpec == Init /\ [][ShadowNext]_vars

\* ------------------------------------------------- the faces of a mesh

\* A point <<u, v>> of an outline, laid in the plane at height h across the
\* named axis.
Embed(coordPlane, q, h) ==
    CASE coordPlane = "z" -> <<q[1], q[2], h>>
      [] coordPlane = "y" -> <<q[1], h, q[2]>>
      [] OTHER -> <<h, q[1], q[2]>>

\* Triangulated outlines: a triangle, a square cut along either diagonal and
\* as a fan about its centre, a rectangle with a vertex on its bottom edge,
\* an L, and three collinear vertices.
Outlines ==
    { << <<<<0, 0>>, <<2, 0>>, <<0, 2>>>> >>,
      << <<<<0, 0>>, <<2, 0>>, <<2, 2>>>>, <<<<0, 0>>, <<2, 2>>, <<0, 2>>>> >>,
      << <<<<0, 0>>, <<2, 0>>, <<0, 2>>>>, <<<<2, 0>>, <<2, 2>>, <<0, 2>>>> >>,
      << <<<<1, 1>>, <<0, 0>>, <<2, 0>>>>, <<<<1, 1>>, <<2, 0>>, <<2, 2>>>>,
         <<<<1, 1>>, <<2, 2>>, <<0, 2>>>>, <<<<1, 1>>, <<0, 2>>, <<0, 0>>>> >>,
      << <<<<0, 0>>, <<1, 0>>, <<0, 2>>>>, <<<<1, 0>>, <<2, 0>>, <<2, 2>>>>,
         <<<<1, 0>>, <<2, 2>>, <<0, 2>>>> >>,
      << <<<<0, 0>>, <<2, 0>>, <<2, 1>>>>, <<<<0, 0>>, <<2, 1>>, <<1, 1>>>>,
         <<<<0, 0>>, <<1, 1>>, <<1, 2>>>>, <<<<0, 0>>, <<1, 2>>, <<0, 2>>>> >>,
      << <<<<0, 0>>, <<1, 0>>, <<2, 0>>>> >>,
      << <<<<0, 0>>, <<1, 0>>, <<2, 0>>>>, <<<<0, 0>>, <<2, 0>>, <<2, 2>>>> >> }

\* The triangles of an outline in a plane, those in flipped wound the other
\* way round.
MeshOf(outline, coordPlane, flipped) ==
    [k \in 1..Len(outline) |->
        LET t == [c \in 1..3 |-> Embed(coordPlane, outline[k][c], 0)]
        IN  IF k \in flipped THEN <<t[1], t[3], t[2]>> ELSE t]

\* A small triangle in one plane, listed before a square in the parallel
\* plane 3/200 of a unit away.
TwoPlanes(coordPlane) ==
    << [c \in 1..3 |-> Embed(coordPlane, <<<<0, 0>>, <<1, 0>>, <<0, 1>>>>[c], 3)],
       [c \in 1..3 |-> Embed(coordPlane, <<<<0, 0>>, <<2, 0>>, <<2, 2>>>>[c], 0)],
       [c \in 1..3 |-> Embed(coordPlane, <<<<0, 0>>, <<2, 2>>, <<0, 2>>>>[c], 0)] >>

\* A long triangle followed by a second one that is lifted off its plane
\* or tilted against it: lifted by 1/200 and by 3/200, tilted by atan(1/10)
\* and by atan(1/5), and tilted by atan(1/10) with a vertex 3/200 off the
\* plane.
NearPlanes(coordPlane) ==
    LET second == { <<<<0, 0, 1>>, <<10, 0, 1>>, <<0, 1, 1>>>>,
                    <<<<0, 0, 3>>, <<10, 0, 3>>, <<0, 1, 3>>>>,
                    <<<<0, 0, 0>>, <<10, 0, 1>>, <<0, 1, 0>>>>,
                    <<<<0, 0, 0>>, <<5, 0, 1>>, <<0, 1, 0>>>>,
                    <<<<0, 0, 0>>, <<30, 0, 3>>, <<0, 1, 0>>>> }
        At(t) == [c \in 1..3 |-> Embed(coordPlane, <<t[c][1], t[c][2]>>, t[c][3])]
    IN  { <<At(<<<<0, 0, 0>>, <<10, 0, 0>>, <<0, 1, 0>>>>), At(t)>> : t \in second }

\* ====================================================================
\* The panel conversion: convertDraggableObjectsToLargestPanels
\* ====================================================================

\* panel.name for the panel that replaces the object.
PanelOf(n) == "Panel_" \o n

\* A triangulation with a triangle for every edge of the outline.
FanAroundTheOutline(vertices) ==
    LET n == Len(vertices)
    IN  [i \in 1..n |-> <<vertices[1], vertices[i], vertices[(i % n) + 1]>>]

\* The loop over translatedVertices: the triangles (anchor, v[i], v[i+1]).
FanTriangulation(vertices) ==
    LET n == Len(vertices)
    IN  [i \in 1..(n - 2) |-> <<vertices[1], vertices[i + 1], vertices[i + 2]>>]

\* largestFace.vertices.map(v => v - centroid), taken Len(vertices) times
\* as long to stay whole.
TranslatedVertices(vertices) ==
    LET n == Len(vertices)
        sums[k \in 0..n] ==
            IF k = 0 THEN <<0, 0, 0>>
            ELSE <<sums[k - 1][1] + vertices[k][1], sums[k - 1][2] + vertices[k][2],
                   sums[k - 1][3] + vertices[k][3]>>
    IN  [i \in 1..n |-> <<n * vertices[i][1] - sums[n][1], n * vertices[i][2] - sums[n][2],
                          n * vertices[i][3] - sums[n][3]>>]

\* new THREE.Box3().setFromObject(object, true).getCenter(), doubled.
ObjectWorldCenter(object) ==
    LET pts == UNION {{t[1], t[2], t[3]} : t \in {object.triangles[k] : k \in 1..Len(object.triangles)}}
        mid(c) == SetMaxInt({p[c] : p \in pts}) + (-SetMaxInt({-p[c] : p \in pts}))
    IN  <<mid(1), mid(2), mid(3)>>

\* The forEach of convertDraggableObjectsToLargestPanels with the lists of
\* faces getFacesWithAreas returns for the objects (facesOf[n] for n).
ConvertObjects(facesOf) ==
    LET isMesh(n) == meshTriangles[n].kind \in {"mesh", "noPosition"}
        replaced == {n \in draggableObjects :
                        /\ isMesh(n)
                        /\ facesOf[n] # <<>>
                        /\ Len(facesOf[n][1].vertices) >= 3}
        panels == {PanelOf(n) : n \in replaced}
        Object(p) == CHOOSE n \in replaced : PanelOf(n) = p
        kept == SelectSeq(<<"A", "B", "C">>, LAMBDA n : n \in draggableObjects \ replaced)
    IN  /\ draggableObjects' = (draggableObjects \ replaced) \cup panels
        /\ parent' = [n \in (DOMAIN parent) \cup panels |->
                         IF n \in replaced THEN NoNode
                         ELSE IF n \in panels THEN "modelContainer"
                         ELSE parent[n]]
        /\ meshTriangles' =
               [n \in (DOMAIN meshTriangles) \cup panels |->
                   IF n \in panels
                   THEN FaceInput("mesh",
                            FanTriangulation(TranslatedVertices(facesOf[Object(n)][1].vertices)))
                   ELSE meshTriangles[n]]
        /\ is2DPanel' = is2DPanel \cup panels
        /\ nodeKind' = [n \in (DOMAIN nodeKind) \cup panels |->
                           IF n \in panels THEN "mesh" ELSE nodeKind[n]]
        /\ material' = [n \in (DOMAIN material) \cup panels |->
                           IF n \in panels THEN "panelMaterial" ELSE material[n]]
        /\ position' = [n \in (DOMAIN position) \cup panels |->
                           IF n \in panels THEN ObjectWorldCenter(meshTriangles[Object(n)])
                           ELSE position[n]]
        /\ warnings' = warnings \o
               [i \in 1..Len(kept) |->
                   IF isMesh(kept[i])
                   THEN "Could not find a suitable large face on object for panel creation: "
                            \o kept[i]
                   ELSE "Skipping non-mesh or mesh without geometry in draggableObjects: "
                            \o kept[i]]

\* convertDraggableObjectsToLargestPanels(), called by the load callback
\* when the classifier has returned.
Convert ==
    /\ classifierPc.phase = "done"
    /\ \E fA \in {GetFacesWithAreas(meshTriangles["A"], negativeZero)},
          fB \in {GetFacesWithAreas(meshTriangles["B"], negativeZero)},
          fC \in {GetFacesWithAreas(meshTriangles["C"], negativeZero)} :
           ConvertObjects([n \in {"A", "B", "C"} |->
                              IF n = "A" THEN fA ELSE IF n = "B" THEN fB ELSE fC])
    /\ classifierPc' = [classifierPc EXCEPT !.phase = "converted"]
    /\ UNCHANGED <<originalMaterials, localPivotToBBoxCenterOffsets, intersectedObject, coordPopupDisplay,
                   deleteButtonDisplay, isDragging, pointerDownOnDraggable, controlsEnabled, geometry,
                   baseQuat, mcQuat, tweens, dragOffset, lightDir, exportPc, lastOp,
                   dragSession, staleOffsets, events, displayedFor, panelAlert,
                   customObjects, coordFields, customAxesRotation, modelLoaded, plane, turns>>
    /\ UNCHANGED <<faceInput, negativeZero, faces, facesPc, faceGroups>>
    /\ UNCHANGED <<bbox, objectsToProcessForDraggability, processedObjects, inputParent>>
    /\ UNCHANGED <<shadowPc, sampleIndex, shadowedSamples, intersects, isInShadow,
                   sampledObject, helperInScene, hitObjects, castingRays, coverage>>

\* The geometries of the meshes the classifier leaves in draggableObjects:
\* the outlines and the two parallel faces, and a geometry without a
\* position attribute.
ConvertInputs ==
    {FaceInput("noPosition", <<>>), FaceInput("mesh", TwoPlanes("x"))}
        \cup {FaceInput("mesh", MeshOf(o, "z", {})) : o \in Outlines}

\* The state when the classifier has returned: the meshes A, B and C of the
\* model, of which the classifier has put some of A and B into
\* draggableObjects (it puts meshes only).
ConvertInit ==
    /\ parent = [n \in {"modelContainer", "model", "A", "B", "C"} |->
                    CASE n = "modelContainer" -> NoNode
                      [] n = "model" -> "modelContainer"
                      [] OTHER -> "model"]
    /\ inputParent = parent
    /\ nodeKind = [n \in {"modelContainer", "model", "A", "B", "C"} |->
                      IF n \in {"A", "B", "C"} THEN "mesh" ELSE "group"]
    /\ meshTriangles \in [{"A", "B", "C"} -> ConvertInputs]
    /\ meshTriangles["C"] = FaceInput("mesh", TwoPlanes("x"))
    /\ negativeZero \in BOOLEAN
    /\ draggableObjects \in SUBSET {"A", "B"}
    /\ material = [n \in {"A", "B", "C"} |->
                      IF n \in draggableObjects THEN "panelMaterial" ELSE "standardMaterial"]
    /\ originalMaterials = [n \in draggableObjects |-> "standardMaterial"]
    /\ is2DPanel = {}
    /\ bbox = <<>>
    /\ objectsToProcessForDraggability = <<>>
    /\ processedObjects = {"model", "A", "B", "C"}
    /\ classifierPc = [phase |-> "done", index |-> 0]
    /\ localPivotToBBoxCenterOffsets = <<>>
    /\ intersectedObject = NoNode
    /\ coordPopupDisplay = "none"
    /\ deleteButtonDisplay = "none"
    /\ isDragging = FALSE
    /\ pointerDownOnDraggable = FALSE
    /\ controlsEnabled = TRUE
    /\ position = <<>>
    /\ geometry = <<>>
    /\ baseQuat = 0
    /\ mcQuat = 0
    /\ tweens = <<>>
    /\ dragOffset = Zero2
    /\ lightDir = 0
    /\ exportPc = "idle"
    /\ lastOp = Op("none", NoNode, Zero2, FALSE, FALSE)
    /\ dragSession = NoNode
    /\ staleOffsets = {}
    /\ events = 0
    /\ displayedFor = HiddenPopup
    /\ panelAlert = NoAlert
    /\ customObjects = <<>>
    /\ coordFields = <<0, 0>>
    /\ customAxesRotation = 0
    /\ modelLoaded = TRUE
    /\ plane = DefaultPlane
    /\ turns = NoTurns
    /\ faceInput = FaceInput("null", <<>>)
    /\ faces = <<>>
    /\ facesPc = "idle"
    /\ faceGroups = <<>>
    /\ shadowPc = "idle"
    /\ sampleIndex = 0
    /\ shadowedSamples = 0
    /\ intersects = <<>>
    /\ isInShadow = FALSE
    /\ sampledObject = NoNode
    /\ helperInScene = FALSE
    /\ hitObjects = <<>>
    /\ castingRays = 0
    /\ coverage = 0
    /\ warnings = <<>>

ConvertSpec == ConvertInit /\ [][Convert]_vars

\* The objects getFacesWithAreas is called with.
FaceInputs ==
    {FaceInput(k, <<>>) : k \in {"null", "group", "noGeometry", "noPosition"}}
    \cup UNION {{FaceInput("mesh", m) : m \in NearPlanes(coordPlane)} : coordPlane \in {"x", "y", "z"}}
    \cup {FaceInput("mesh", TwoPlanes(coordPlane)) : coordPlane \in {"x", "y", "z"}}
    \cup UNION {{FaceInput("mesh", MeshOf(o, coordPlane, flipped)) :
                    coordPlane \in {"x", "y", "z"}, flipped \in SUBSET (1..Len(o))} : o \in Outlines}

FacesInit ==
    /\ InitProgram
    /\ faceInput \in FaceInputs
    /\ negativeZero \in BOOLEAN
    /\ faces = <<>>
    /\ facesPc = "idle"
    /\ faceGroups = <<>>
    /\ meshTriangles = <<>>

\* A call of getFacesWithAreas(object).
GetFaces ==
    /\ facesPc = "idle"
    /\ faces' = GetFacesWithAreas(faceInput, negativeZero)
    /\ faceGroups' = IF faceInput.kind = "mesh"
                     THEN GroupTriangles(faceInput.triangles, 1, {})
                     ELSE <<>>
    /\ facesPc' = "done"
    /\ UNCHANGED <<faceInput, negativeZero, parent, draggableObjects, meshTriangles>>
    /\ UnchangedInteractive /\ UnchangedLoad /\ UnchangedShadow

\* calculateShadowCoverage(object) with a guard clause that warns for every
\* object it turns away.
CoverageRejectsAloud ==
    /\ shadowPc = "idle"
    /\ faceInput.kind # "mesh"
    /\ warnings' = Append(warnings, "Invalid object for shadow coverage calculation.")
    /\ coverage' = 0
    /\ shadowPc' = "done"
    /\ UNCHANGED <<sampleIndex, shadowedSamples, intersects, isInShadow,
                   sampledObject, helperInScene, hitObjects, castingRays>>
    /\ UnchangedProgram

\* calculateShadowCoverage(object) for an object it returns 0 for at once:
\* null, no mesh or no geometry, with a warning, and a geometry without a
\* position attribute, without one.
CoverageRejects ==
    /\ shadowPc = "idle"
    /\ faceInput.kind # "mesh"
    /\ warnings' = IF faceInput.kind = "noPosition" THEN warnings
                   ELSE Append(warnings, "Invalid object for shadow coverage calculation.")
    /\ coverage' = 0
    /\ shadowPc' = "done"
    /\ UNCHANGED <<sampleIndex, shadowedSamples, intersects, isInShadow,
                   sampledObject, helperInScene, hitObjects, castingRays>>
    /\ UnchangedProgram

FacesSpec == FacesInit /\ [][GetFaces \/ CoverageRejects]_vars

\* --------------------------------------- properties of the shadow sampler
\* C10 as stated: a sample is counted as occluded exactly when the nearest
\* hit of its ray is on a shadow-casting node.
C10_OccludedIffNearestCasts ==
    (shadowPc = "sampling" /\ sampleIndex > 0) =>
        (isInShadow <=> (intersects # <<>> /\ intersects[1]))

\* C10 amended: a sample is counted as occluded exactly when some hit of its
\* ray, the nearest or not, is on a shadow-casting node; a shadow-casting
\* node behind a nearer hit on a node that casts none does occlude it.
C10_OccludedIffSomeHitCasts ==
    (shadowPc = "sampling" /\ sampleIndex > 0) =>
        /\ isInShadow <=> (\E j \in 1..Len(intersects) : intersects[j])
        /\ (intersects = <<FALSE, TRUE>> => isInShadow)

\* C10 witness: a sample whose nearest hit casts no shadow and whose second
\* hit does has been counted as occluded.
C10_CasterBehindNonCaster ==
    /\ shadowPc = "sampling"
    /\ sampleIndex > 0
    /\ intersects = <<FALSE, TRUE>>
    /\ isInShadow
    /\ shadowedSamples > 0

\* C11: while calculateShadowCoverage samples an object, neither that object
\* nor the directional light is among the objects its rays are tested
\* against, and no hit of a sample ray is on the sampled object.
C11_SampledObjectNeverTested ==
    shadowPc = "sampling" =>
        /\ sampledObject \notin RayTargets(sampledObject)
        /\ "directionalLight" \notin RayTargets(sampledObject)
        /\ \A j \in 1..Len(hitObjects) : hitObjects[j] # sampledObject

\* C12: when calculateShadowCoverage returns it has taken exactly 1000
\* samples, and the value returned is 100 x occluded / 1000 to the nearest
\* tenth, where occluded counts the sample rays that hit a shadow-casting
\* node: between 0.0 and 100.0, 0.0 when no ray did and 100.0 when all did.
C12_CoverageIsPercentOfSamples ==
    shadowPc = "done" =>
        /\ sampleIndex = 1000
        /\ 2 * (1000 * coverage - 10 * 100 * castingRays) <= 1000
        /\ 2 * (10 * 100 * castingRays - 1000 * coverage) <= 1000
        /\ coverage >= 0 /\ coverage <= 1000
        /\ (castingRays = 0 => coverage = 0)
        /\ (castingRays = sampleIndex => coverage = 1000)

\* C12 witness: the sampler has returned after some rays, not all, hit a
\* shadow-casting node.
C12_PartlyShadowed ==
    /\ shadowPc = "done"
    /\ castingRays > 0
    /\ castingRays < sampleIndex
    /\ coverage = castingRays

\* C13: while a draggable proxy is selected and its shadow coverage is
\* displayed, the displayed value was computed for the proxy's present
\* position, the model's present orientation and the present light
\* direction.
C13_DisplayedCoverageIsCurrent ==
    (/\ intersectedObject # NoNode
     /\ intersectedObject \in draggableObjects
     /\ displayedFor # HiddenPopup) =>
        displayedFor = ShowShadowCoverage(intersectedObject,
                           position[intersectedObject], baseQuat, mcQuat, lightDir)


\* C14: addObjectToScene applies its checks in a fixed order and reports the
\* first that fails: (1) points 1-3 collinear, the squared length of
\* (p2 - p1) x (p3 - p1) below 1e-4, i.e. at most 6 / 16^4; (2) point 4
\* farther than 0.01 from the plane of the first three; (3) one of the
\* triangles (p1, p3, p4), (p1, p2, p4), (p2, p3, p4) collinear by the same
\* test. The submission is accepted exactly when none fails.
C14_ChecksInFixedOrder ==
    (lastOp.name = "addPanel" /\ panelAlert.form.numeric) =>
        LET p == panelAlert.form.pts
            Tiny(a, b, c) == LengthSq3(Cross3(Sub3(b, a), Sub3(c, a))) <= 6
            n == Cross3(Sub3(p[2], p[1]), Sub3(p[3], p[1]))
            check1 == Tiny(p[1], p[2], p[3])
            check2 == OffPlane(Dot3(Sub3(p[4], p[1]), n), LengthSq3(n))
            check3 == Tiny(p[1], p[3], p[4]) \/ Tiny(p[1], p[2], p[4])
                          \/ Tiny(p[2], p[3], p[4])
        IN  /\ panelAlert.kind = IF check1 THEN "collinear"
                                 ELSE IF check2 THEN "notCoplanar"
                                 ELSE IF check3 THEN "degenerate"
                                 ELSE "accepted"
            /\ lastOp.node # NoNode <=> ~(check1 \/ check2 \/ check3)

\* A submission that fails checks (2) and (3) at once was answered with the
\* message of check (2).
C14_FirstOfTwoFailures ==
    /\ lastOp.name = "addPanel"
    /\ panelAlert.kind = "notCoplanar"
    /\ LET p == panelAlert.form.pts
       IN  LengthSq3(Cross3(Sub3(p[3], p[1]), Sub3(p[4], p[1]))) <= 6


\* C15: the point suggested for an off-plane fourth point is p4 minus the
\* unit normal times the signed distance of p4 from the plane of the first
\* three points, all in the baseline frame (shown with two decimals); typed
\* back as point 4 (here whenever it is a whole number of quarter units) it
\* passes the coplanarity check; and the input (0,0,0), (1,0,0), (1,1,0),
\* (0,1,5) is answered with (0, 1, 0).
C15_SuggestionProjectsPointFour ==
    (lastOp.name = "addPanel" /\ panelAlert.kind = "notCoplanar") =>
        LET f == panelAlert.form
            s == panelAlert.point
            retyped == Form(TRUE, f.pts[1], f.pts[2], f.pts[3],
                            <<(4 * s[1]) \div 25, (4 * s[2]) \div 25, (4 * s[3]) \div 25>>)
        IN  /\ s = SuggestedPoint(f, baseQuat)
            /\ (\A i \in 1..3 : s[i] % 25 = 0) => ValidatePanel(retyped) # "notCoplanar"
            /\ f.pts = <<Units(0, 0, 0), Units(1, 0, 0), Units(1, 1, 0), Units(0, 1, 5)>>
                   => s = <<0, 100, 0>>

\* C16: a rejected submission of the add-panel form (fields that are not
\* numbers, collinear points, a fourth point off the plane, a degenerate
\* alternate triangle) creates no mesh and leaves the scene graph,
\* draggableObjects, the cached offsets, the original materials and the
\* selection as they were, and the user is shown a message.
C16_RejectionChangesNothing ==
    [][(lastOp'.name = "addPanel" /\ lastOp'.node = NoNode) =>
           /\ panelAlert'.kind \in {"notNumeric", "collinear", "notCoplanar", "degenerate"}
           /\ UNCHANGED <<parent, geometry, customObjects, draggableObjects,
                          localPivotToBBoxCenterOffsets, originalMaterials,
                          material, intersectedObject>>]_vars

\* The form was submitted with a field that is not a number while an
\* object was selected.
C16_RejectedWhileSelected ==
    /\ lastOp.name = "addPanel"
    /\ lastOp.node = NoNode
    /\ panelAlert.kind = "notNumeric"
    /\ intersectedObject # NoNode


C18_TrianglesFaceTheSameSide ==
    (lastOp.name = "addPanel" /\ lastOp.node # NoNode) =>
        LET p == panelAlert.form.pts
            idx == customObjects[lastOp.node].index
            Normal(t) == Cross3(Sub3(p[idx[3 * t + 2] + 1], p[idx[3 * t + 1] + 1]),
                                Sub3(p[idx[3 * t + 3] + 1], p[idx[3 * t + 1] + 1]))
        IN  /\ LengthSq3(Normal(0)) > 0
            /\ LengthSq3(Normal(1)) > 0
            /\ Dot3(Normal(0), Normal(1)) > 0


\* C19: for a mesh whose triangles are mutually coplanar (here: none
\* degenerate, all in one plane and wound the same way) getFacesWithAreas
\* returns exactly one merged face, and its area is the sum of the areas of
\* the triangles, whatever the outline, the vertices along an edge, the
\* winding and the direction of the normal (areas are doubled).
C19_OneFaceOfTheWholeArea ==
    LET tris == faceInput.triangles
        TriangleArea(t) == LET n == Cross3(Sub3(t[2], t[1]), Sub3(t[3], t[1]))
                           IN  Abs(n[1]) + Abs(n[2]) + Abs(n[3])
        Total == LET sum[k \in 0..Len(tris)] ==
                         IF k = 0 THEN 0 ELSE sum[k - 1] + TriangleArea(tris[k])
                 IN  sum[Len(tris)]
    IN  (/\ facesPc = "done"
         /\ faceInput.kind = "mesh"
         /\ \A i \in 1..Len(tris) : SamePlane(tris[1], tris[i])) =>
            /\ Len(faces) = 1
            /\ faces[1].area = <<Total * Total, 1>>

\* C20: getFacesWithAreas returns its faces in the order of non-increasing
\* area, every face with a strictly positive area and at least three
\* vertices, and the empty list when the node is not a mesh or has no
\* geometry.
C20_FacesSortedAndProper ==
    facesPc = "done" =>
        /\ \A i \in 1..Len(faces) :
               /\ faces[i].area[1] > 0
               /\ faces[i].area[2] > 0
               /\ Len(faces[i].vertices) >= 3
               /\ i < Len(faces) =>
                      faces[i].area[1] * faces[i + 1].area[2]
                          >= faces[i + 1].area[1] * faces[i].area[2]
        /\ faceInput.kind # "mesh" => faces = <<>>

\* Two faces of different area were returned for a mesh that lists the
\* smaller one first.
C20_SmallerFaceListedFirst ==
    /\ facesPc = "done"
    /\ Len(faces) = 2
    /\ faces[1].area[1] * faces[2].area[2] > faces[2].area[1] * faces[1].area[2]
    /\ TriangleNormal(faceInput.triangles[1]) = faces[2].normal
    /\ DistanceToPoint(faceInput.triangles[1], faces[1].vertices[1]) # 0


\* ---------------------------------------------------------------------------
\* C21: the face groups of getFacesWithAreas
\* ---------------------------------------------------------------------------

\* The triangles of group g lie within the tolerances of its seed triangle:
\* the unit normals have a dot product above 0.99 and every vertex is within
\* 0.01 (2/200) of the plane of the seed.
WithinTolerance(tris, g) ==
    LET seed == tris[g[1]]
        n == TriangleNormal(seed)
    IN  \A i \in 1..Len(g) :
            LET t == tris[g[i]]
                m == TriangleNormal(t)
            IN  /\ Dot3(n, m) > 0
                /\ 10000 * Dot3(n, m) * Dot3(n, m) > 9801 * LengthSq3(n) * LengthSq3(m)
                /\ \A c \in 1..3 :
                       LET d == Dot3(n, Sub3(t[c], seed[1]))
                       IN  d * d <= 4 * LengthSq3(n)

\* Every triangle of the input is a member of exactly one group.
EachInOneGroup(tris) ==
    \A k \in 1..Len(tris) :
        Cardinality({ p \in {<<a, b>> : a \in 1..Len(faceGroups), b \in 1..Len(tris)} :
                         /\ p[2] <= Len(faceGroups[p[1]])
                         /\ faceGroups[p[1]][p[2]] = k }) = 1

\* C21 as stated: in every face group each member triangle's normal has a
\* dot product greater than 0.99 with the group's normal and each of its
\* vertices lies within 0.01 of the plane of the seed triangle, and every
\* input triangle is assigned to exactly one group.
C21_EveryGroupWithinTolerance ==
    (facesPc = "done" /\ faceInput.kind = "mesh") =>
        /\ \A a \in 1..Len(faceGroups) : WithinTolerance(faceInput.triangles, faceGroups[a])
        /\ EachInOneGroup(faceInput.triangles)

\* C21, amended: the tolerances hold in every group whose seed triangle has
\* a normal; a degenerate triangle, whose normal is (0,0,0), is the only
\* member of its group; every input triangle is in exactly one group.
C21_GroupsOfProperSeedsWithinTolerance ==
    (facesPc = "done" /\ faceInput.kind = "mesh") =>
        /\ \A a \in 1..Len(faceGroups) :
               IF TriangleNormal(faceInput.triangles[faceGroups[a][1]]) = <<0, 0, 0>>
               THEN Len(faceGroups[a]) = 1
               ELSE WithinTolerance(faceInput.triangles, faceGroups[a])
        /\ EachInOneGroup(faceInput.triangles)

\* A group that holds a triangle tilted against its seed, and an input with
\* a triangle that was kept out of the group of the first.
C21_TiltedTriangleJoined ==
    /\ facesPc = "done"
    /\ faceInput.kind = "mesh"
    /\ \E a \in 1..Len(faceGroups) :
           /\ Len(faceGroups[a]) = 2
           /\ TriangleNormal(faceInput.triangles[faceGroups[a][1]])
                  # TriangleNormal(faceInput.triangles[faceGroups[a][2]])


\* ---------------------------------------------------------------------------
\* C24: a mesh without position data
\* ---------------------------------------------------------------------------

\* C24 as stated: for a mesh without position data getFacesWithAreas
\* returns an empty list and calculateShadowCoverage returns zero, each of
\* the two logs a warning, and neither throws (both return).
C24_EmptyZeroAndWarned ==
    [][faceInput.kind = "noPosition" =>
          /\ GetFaces => faces' = <<>> /\ facesPc' = "done"
                            /\ Len(warnings') > Len(warnings)
          /\ CoverageRejects => coverage' = 0 /\ shadowPc' = "done"
                                   /\ Len(warnings') > Len(warnings)]_vars

\* C24, amended: for a mesh without position data getFacesWithAreas returns
\* an empty list and calculateShadowCoverage returns zero, neither logs a
\* warning and neither throws; calculateShadowCoverage logs its warning
\* for an object that is null, no mesh or without a geometry only, and
\* getFacesWithAreas logs none.
C24_EmptyAndZeroInSilence ==
    [][/\ GetFaces /\ faceInput.kind # "mesh" =>
              faces' = <<>> /\ facesPc' = "done" /\ warnings' = warnings
       /\ CoverageRejects =>
              /\ coverage' = 0 /\ shadowPc' = "done"
              /\ warnings' = IF faceInput.kind = "noPosition" THEN warnings
                             ELSE Append(warnings,
                                      "Invalid object for shadow coverage calculation.")]_vars

\* Both functions have returned for a mesh without position data.
C24_BothReturnedWithoutPositions ==
    /\ faceInput.kind = "noPosition"
    /\ facesPc = "done" /\ faces = <<>>
    /\ shadowPc = "done" /\ coverage = 0
    /\ warnings = <<>>


\* ---------------------------------------------------------------------------
\* C22: deleteSelectedObject
\* ---------------------------------------------------------------------------

\* The node is attached to the scene (below baseModelContainer).
InScene(n) == IsInSubtree(parent, n, "baseModelContainer")

\* C22: a confirmed delete of the selected object leaves the selection
\* empty, isDragging and pointerDownOnDraggable false and the deleted node
\* out of the scene, of draggableObjects and of the cached offsets; no
\* later step (pointer, coordinate edit, tween completion or any other)
\* selects, drags, moves, re-attaches or caches an offset for a node that
\* is out of the scene; a cancelled confirmation changes nothing.
C22_DeletedNodeIsGone ==
    [][/\ (intersectedObject # NoNode /\ DeleteSelectedObject(TRUE)) =>
              /\ intersectedObject' = NoNode
              /\ ~isDragging' /\ ~pointerDownOnDraggable'
              /\ parent'[intersectedObject] = NoNode
              /\ intersectedObject \notin draggableObjects'
              /\ intersectedObject \notin DOMAIN localPivotToBBoxCenterOffsets'
       /\ \A n \in DOMAIN geometry :
              ~InScene(n) =>
                  /\ intersectedObject' # n
                  /\ dragSession' # n
                  /\ position'[n] = position[n]
                  /\ parent'[n] = parent[n]
                  /\ n \notin draggableObjects'
                  /\ n \notin DOMAIN localPivotToBBoxCenterOffsets'
       /\ DeleteSelectedObject(FALSE) =>
              UNCHANGED <<parent, draggableObjects, geometry, position, baseQuat,
                          mcQuat, tweens, localPivotToBBoxCenterOffsets, material,
                          originalMaterials, intersectedObject, isDragging,
                          pointerDownOnDraggable, controlsEnabled, dragOffset,
                          displayedFor, customObjects, lightDir, exportPc>>]_vars

\* The rotation started while the proxy P1 was selected has completed
\* after P1 was deleted.
C22_TweenCompletedAfterDelete ==
    /\ lastOp.name = "tweenUpdate"
    /\ tweens = <<>>
    /\ parent["P1"] = NoNode
    /\ mcQuat # 0


\* ---------------------------------------------------------------------------
\* C23: a coordinate edit that is discarded
\* ---------------------------------------------------------------------------

\* C23: a coordinate edit with a non-numeric field, or made while the
\* selected object is no member of draggableObjects, moves nothing (the
\* position of every mesh, both container orientations and the scene graph
\* stay as they are) and writes the current centre of the selected object's
\* bounding box to the coordinate fields.
C23_DiscardedEditRedisplays ==
    [][\A numeric \in BOOLEAN, P \in CoordInputs :
          (/\ lastOp'.name = "coordInput"
           /\ intersectedObject # NoNode
           /\ ~numeric \/ intersectedObject \notin draggableObjects
           /\ OnCoordInputChange(numeric, P)) =>
              /\ UNCHANGED <<position, baseQuat, mcQuat, parent, geometry,
                             localPivotToBBoxCenterOffsets>>
              /\ coordFields' =
                     <<ToFixed2(BBoxCenter(World, intersectedObject)[1], Scale),
                       ToFixed2(BBoxCenter(World, intersectedObject)[2], Scale)>>]_vars

\* An edit of the mesh S, which is no draggable proxy, has been discarded
\* and the fields show the centre of S.
C23_EditOfNonDraggableDiscarded ==
    /\ lastOp.name = "coordInput"
    /\ ~lastOp.wrote
    /\ intersectedObject = "S"
    /\ "S" \notin draggableObjects
    /\ coordFields = <<ToFixed2(BBoxCenter(World, "S")[1], Scale),
                       ToFixed2(BBoxCenter(World, "S")[2], Scale)>>


\* ---------------------------------------------------------------------------
\* C25: convertDraggableObjectsToLargestPanels
\* ---------------------------------------------------------------------------

\* C25: the conversion replaces every draggable mesh that has a face by
\* exactly one new mesh, flagged as a 2-D panel, a child of the model
\* container, whose triangles are the fan of the largest face (n - 2
\* triangles with a common first vertex for its n vertices, each starting
\* where the one before ends); the original mesh is detached; every other
\* draggable object stays as it is and stays draggable; no other node is
\* added or changed, and the number of draggable proxies stays the same.
C25_OnePanelPerMeshWithAFace ==
    [][Convert =>
          \A facesOf \in {[A |-> GetFacesWithAreas(meshTriangles["A"], negativeZero),
                           B |-> GetFacesWithAreas(meshTriangles["B"], negativeZero),
                           C |-> GetFacesWithAreas(meshTriangles["C"], negativeZero)]} :
          LET HasFace(n) == facesOf[n] # <<>>
              Largest(n) == facesOf[n][1]
              new == (DOMAIN parent') \ (DOMAIN parent)
              IsFan(tris, k) ==
                  /\ Len(tris) = k - 2
                  /\ \A i \in 1..Len(tris) : tris[i][1] = tris[1][1]
                  /\ \A i \in 1..(Len(tris) - 1) : tris[i][3] = tris[i + 1][2]
                  /\ Cardinality({tris[1][1]} \cup {tris[i][2] : i \in 1..Len(tris)}
                                     \cup {tris[i][3] : i \in 1..Len(tris)}) = k
          IN  /\ \A n \in draggableObjects :
                     IF HasFace(n)
                     THEN /\ parent'[n] = NoNode
                          /\ n \notin draggableObjects'
                          /\ \E p \in new :
                                 /\ p = PanelOf(n)
                                 /\ p \in draggableObjects'
                                 /\ p \in is2DPanel'
                                 /\ nodeKind'[p] = "mesh"
                                 /\ parent'[p] = "modelContainer"
                                 /\ IsFan(meshTriangles'[p].triangles,
                                          Len(Largest(n).vertices))
                     ELSE /\ n \in draggableObjects'
                          /\ parent'[n] = parent[n]
                          /\ meshTriangles'[n] = meshTriangles[n]
              /\ Cardinality(new) = Cardinality({n \in draggableObjects : HasFace(n)})
              /\ \A n \in (DOMAIN parent) \ draggableObjects :
                     /\ parent'[n] = parent[n]
                     /\ n \notin draggableObjects'
                     /\ n \in DOMAIN meshTriangles => meshTriangles'[n] = meshTriangles[n]
              /\ Cardinality(draggableObjects') = Cardinality(draggableObjects)]_vars

\* The conversion has replaced a mesh with an L-shaped face by a panel of
\* four triangles and has kept a mesh without a face.
C25_ReplacedOneAndKeptOne ==
    /\ classifierPc.phase = "converted"
    /\ "Panel_A" \in draggableObjects
    /\ Len(meshTriangles["Panel_A"].triangles) = 4
    /\ "B" \in draggableObjects
    /\ parent["A"] = NoNode


\* ---------------------------------------------------------------------------
\* C27: the proxy of a rigid unit
\* ---------------------------------------------------------------------------

\* C27: in every iteration of the second pass that handles a unit, the
\* proxy put into draggableObjects is a mesh of the subtree of the resolved
\* root (the highest valid ancestor, or the flagged panel itself) whose
\* volume is minimal among the meshes of that subtree and which comes
\* first in traversal order among those of that volume; every other mesh
\* that is a direct child of the resolved root is detached by the
\* iteration, and no detached node is attached again by the classifier.
C27_ProxyIsFirstSmallestMesh ==
    [][SecondPassStep =>
          LET object == objectsToProcessForDraggability[classifierPc.index]
              panel == nodeKind[object] = "mesh" /\ object \in is2DPanel
              root == IF panel THEN object
                      ELSE HighestValidAncestor(parent, "modelContainer", object,
                                                parent[object])
              sub == Traverse(parent, root)
              meshesAt == {i \in 1..Len(sub) : nodeKind[sub[i]] = "mesh"}
          IN  /\ (object \notin processedObjects /\ meshesAt # {}) =>
                     \E i \in meshesAt :
                         /\ draggableObjects' = draggableObjects \cup {sub[i]}
                         /\ \A j \in meshesAt :
                                /\ Volume(sub[i]) <= Volume(sub[j])
                                /\ j < i => Volume(sub[i]) < Volume(sub[j])
                         /\ ~panel =>
                                \A c \in DOMAIN parent :
                                    (nodeKind[c] = "mesh" /\ parent[c] = root /\ c # sub[i])
                                        => parent'[c] = NoNode
              /\ \A n \in DOMAIN parent : parent[n] = NoNode => parent'[n] = NoNode]_vars

\* The classifier has returned for a tree in which the meshes A and B of
\* the unit U have the same smallest volume: A, the first of the two in
\* traversal order, is the proxy, and B is detached.
C27_TieTakenByFirstMesh ==
    /\ classifierPc.phase = "done"
    /\ inputParent["A"] = "U" /\ inputParent["B"] = "U"
    /\ nodeKind["U"] = "group"
    /\ Volume("A") = Volume("B")
    /\ is2DPanel = {}
    /\ "A" \in draggableObjects
    /\ parent["A"] = "U"
    /\ parent["B"] = NoNode


\* ---------------------------------------------------------------------------
\* C26: the basis of the vertex sort
\* ---------------------------------------------------------------------------

\* C26: for the normal of every group of triangles whose vertices
\* getFacesWithAreas sorts (a group of a proper first triangle), the world
\* axis taken as the seed of basisX is an axis least aligned with the
\* normal, the seed is not parallel to the normal, and basisX and basisY
\* are both non-zero.
C26_SeedLeastAlignedBasisNonZero ==
    (facesPc = "done" /\ faceInput.kind = "mesh") =>
        \A g \in 1..Len(faceGroups) :
            \A n \in {TriangleNormal(faceInput.triangles[faceGroups[g][1]])} :
                n # <<0, 0, 0>> =>
                    /\ \A k \in 1..3 : Abs(Dot3(SeedAxis(n), n)) <= Abs(n[k])
                    /\ Cross3(SeedAxis(n), n) # <<0, 0, 0>>
                    /\ BasisX(n) # <<0, 0, 0>>
                    /\ BasisY(n) # <<0, 0, 0>>


\* ---------------------------------------------------------------------------
\* C30: the cache of offsets and the set of proxies
\* ---------------------------------------------------------------------------

\* C30: in every state after the load callback the nodes with an entry in
\* localPivotToBBoxCenterOffsets are exactly the members of
\* draggableObjects.
C30_OffsetsExactlyForProxies ==
    DOMAIN localPivotToBBoxCenterOffsets = draggableObjects


\* A panel has been added and the loaded proxy deleted: the new panel is
\* the only proxy and the only node with a cached offset.
C30_PanelAddedProxyDeleted ==
    /\ lastOp.name = "delete"
    /\ lastOp.node = "P1"
    /\ draggableObjects = {"CustomPanel_1"}
    /\ DOMAIN localPivotToBBoxCenterOffsets = {"CustomPanel_1"}


\* ---------------------------------------------------------------------------
\* C28: clicks on the rotate buttons
\* ---------------------------------------------------------------------------

\* C28: once all tweens have completed, the clicks on the rotate buttons
\* since the model was last at rest leave modelContainer turned by the sum
\* of their angles from its orientation before the first of them, and the
\* permanent rotation of the axes helper by the same sum, also when a
\* click came while the tween of an earlier one was running.
C28_RotatedBySumOfClicks ==
    (tweens = <<>> /\ turns.open) =>
        /\ mcQuat = QMul(turns.from, turns.total)
        /\ customAxesRotation = QMul(turns.axesFrom, turns.total)


\* ---------------------------------------------------------------------------
\* C29: the outcome of exportModel
\* ---------------------------------------------------------------------------

\* C29: every invocation of exportModel is eventually followed by one of
\* its outcomes: the download of saved_model.glb, 'Model export failed.',
\* 'An error occurred during export.' or 'No model to export.'.
C29_ExportEventuallyFinishes ==
    (exportPc = "awaitReset") ~>
        (exportPc = "idle" /\ lastOp.name \in ExportResults \cup {"noModel"})

\* C29 for the invocations with the model loaded.
C29_ExportOfLoadedModelFinishes ==
    (modelLoaded /\ exportPc = "awaitReset") ~>
        (exportPc = "idle" /\ lastOp.name \in ExportResults)


\* ---------------------------------------------------------------------------
\* C31: the members of draggableObjects are in the scene
\* ---------------------------------------------------------------------------

\* C31: when the classifier has returned, every member of draggableObjects
\* is a descendant of modelContainer: none has been detached from its
\* parent (and disposed) or lies below a node that has.
C31_ProxiesAttachedBelowContainer ==
    Finished =>
        \A d \in draggableObjects : IsInSubtree(parent, d, "modelContainer")


\* ---------------------------------------------------------------------------
\* C32: the orbit controls during a drag
\* ---------------------------------------------------------------------------

\* C32: while pointerDownOnDraggable is true the orbit controls are
\* disabled, whatever tween completes in the meantime.
C32_ControlsOffWhilePointerDown ==
    pointerDownOnDraggable => ~controlsEnabled

\* ------------------------------------------------------------------ C33
\* C33: after a drag step has written the dragged proxy's position, the
\* proxy's bounding-box centre has, along the normal axis of the drag
\* plane, the coordinate the plane was given at pointer-down.
C33_CenterStaysOnDragPlane ==
    (lastOp.name = "pointerMove" /\ lastOp.wrote /\ plane.normal # 3) =>
        BBoxCenter(World, lastOp.node)[plane.normal] = plane.coord

\* ------------------------------------------------------------------ C34
\* C34: for every face getFacesWithAreas returns whose vertices lie in one
\* plane, calculatePolygonArea gives every cyclic rotation of the face's
\* vertex list the area it gave the list itself.
C34_AreaSameForEveryRotation ==
    facesPc = "done" =>
        \A k \in 1..Len(faces) :
            LET v == faces[k].vertices
                n == Len(v)
                planar == \A h, i, j \in 2..n :
                              Dot3(Cross3(Sub3(v[h], v[1]), Sub3(v[i], v[1])),
                                   Sub3(v[j], v[1])) = 0
            IN  planar =>
                    \A r \in 0..(n - 1) :
                        CalculatePolygonArea([i \in 1..n |-> v[((i + r - 1) % n) + 1]])
                            = faces[k].area

\* ------------------------------------------------------------------ C35
\* C35: the coordinate popup and the delete button are displayed exactly
\* when a node is selected, and the shadow-coverage popup is displayed only
\* when the selected node is a member of draggableObjects.
C35_PopupsFollowSelection ==
    /\ (coordPopupDisplay # "none") <=> (intersectedObject # NoNode)
    /\ (deleteButtonDisplay # "none") <=> (intersectedObject # NoNode)
    /\ (displayedFor # HiddenPopup) =>
           (intersectedObject # NoNode /\ intersectedObject \in draggableObjects)

\* A selected proxy, with the three popups up, has been deleted and nothing
\* is displayed.
C35_PopupsHiddenAfterDelete ==
    /\ lastOp.name = "delete"
    /\ lastOp.node # NoNode
    /\ intersectedObject = NoNode
    /\ coordPopupDisplay = "none"
    /\ deleteButtonDisplay = "none"
    /\ displayedFor = HiddenPopup
====
